---- MODULE Spec2Model ----
(***************************************************************************)
(* Model of book8-voice-agent.                                             *)
(*                                                                         *)
(*  - the text-turn path: POST /api/agent-chat (src/index.js 245-659)      *)
(*    over the per-call session store (src/src/state/callState.js);        *)
(*  - the audio bridge: the /media-stream websocket handler                *)
(*    (src/index.js 694-982) relaying between the telephony transport      *)
(*    (Twilio) and the realtime model socket (OpenAI).                     *)
(*                                                                         *)
(* The two paths share no state, so each has its own next-state relation   *)
(* and its own specification over the one set of variables.                *)
(***************************************************************************)
EXTENDS Integers, Sequences, FiniteSets, TLC

VARIABLES
    calls,        \* callState.js `calls`: Map callSid -> {state, updatedAt}
    now,          \* Date.now()
    req,          \* in-flight /api/agent-chat requests: locals and position
    justBooked,   \* history: calls cleared by a booking and not merged into since
    streamSid,                     \* bridge: bound Twilio stream id
    latestMediaTimestamp,          \* bridge: timestamp of the last media frame
    lastAssistantItem,             \* bridge: item id of the utterance in flight
    markQueue,                     \* bridge: outstanding playback marks
    responseStartTimestampTwilio,  \* bridge: media timestamp at utterance start
    twilioState,  \* transport connection: "open" | "closed"
    wsState,      \* openAiWs.readyState
    lastEvent,    \* history: the bridge event handled last
    outModel,     \* history: frames delivered to the model by the last event
    outTwilio,    \* history: frames delivered to the transport by the last event
    toolCalls,    \* bridge: the book_appointment tool calls and their progress
    post,         \* one call of bestEffortPost: its options, attempts and result
    callTurnIndices,  \* index.js `callTurnIndices`: callSid -> next turn index
    telemetry,    \* per request: the bestEffortPost calls the turn has launched
    turnIndexLog, \* history: per callSid, the values getTurnIndex returned
    storeCall,    \* history: the last direct call of a callState.js function
    marksInFlight,    \* history: marks delivered to the transport and not yet echoed
    ignoredToolCalls  \* history: tool calls of the last requires_action event
                      \* that the dispatch loop passed over

turnVars == <<calls, now, req, justBooked, callTurnIndices, telemetry,
              turnIndexLog, storeCall>>
audioVars == <<streamSid, latestMediaTimestamp, lastAssistantItem, markQueue,
               responseStartTimestampTwilio>>
bridgeVars == <<streamSid, latestMediaTimestamp, lastAssistantItem, markQueue,
                responseStartTimestampTwilio, twilioState, wsState, lastEvent,
                outModel, outTwilio, toolCalls, marksInFlight, ignoredToolCalls>>
postVars == <<post>>
vars == <<calls, now, req, justBooked, streamSid, latestMediaTimestamp,
          lastAssistantItem, markQueue, responseStartTimestampTwilio,
          twilioState, wsState, lastEvent, outModel, outTwilio, toolCalls, post,
          callTurnIndices, telemetry, turnIndexLog, storeCall, marksInFlight,
          ignoredToolCalls>>

(***************************************************************************)
(* Values                                                                  *)
(***************************************************************************)
\* JavaScript null / undefined.
NULL == "<null>"
\* The empty string: not null (so `??` keeps it) but falsy (so `!x` is true).
EMPTY == ""
SlotValues == {NULL, EMPTY, "v1"}

\* x is truthy
Truthy(x) == x # NULL /\ x # EMPTY
\* a ?? b
Coalesce(a, b) == IF a # NULL THEN a ELSE b

SlotNames == {"service", "date", "time", "name", "email", "phone"}
StateFields == SlotNames \cup {"step"}

CallIds == {"CA1"}
\* A request body without callSid.
NoCallSid == NULL
Reqs == {"r1"}

\* Bounds of the model.
MaxExtracted == 1
MaxTicks == 1
MaxMarks == 2
MaxTurnIndex == 6

TTL_MS == 1800000

Intents == {"book", "ask_services", "price", "cancel", "other"}

(***************************************************************************)
(* SessionStateStore: src/src/state/callState.js                           *)
(***************************************************************************)
\* The session a first turn starts from (index.js 339-347).
DefaultState == [f \in StateFields |-> IF f = "step" THEN "greeting" ELSE NULL]

\* `{}`
EmptyObject == [f \in {} |-> NULL]

\* { ...a, ...b }
Spread(a, b) ==
    [f \in DOMAIN a \cup DOMAIN b |-> IF f \in DOMAIN b THEN b[f] ELSE a[f]]

\* calls.get(callSid) finds an entry.
HasEntry(cs, c) == c \in DOMAIN cs

\* Not the code: deleting one key empties the map.
MapDeleteAll(cs, c) == [x \in {} |-> cs[x]]

\* calls.delete(callSid)
MapDelete(cs, c) == [x \in DOMAIN cs \ {c} |-> cs[x]]

\* calls.set(callSid, v)
MapSet(cs, c, v) == [x \in DOMAIN cs \cup {c} |-> IF x = c THEN v ELSE cs[x]]

\* Not the code: an entry expires as soon as it is TTL_MS old.
ExpiredAtTtl(entry, t) == t - entry.updatedAt >= TTL_MS

\* Date.now() - v.updatedAt > TTL_MS
Expired(entry, t) == t - entry.updatedAt > TTL_MS

\* getCallState returns a session (and not null).
GetCallStateFound(cs, t, c) ==
    /\ Truthy(c)
    /\ HasEntry(cs, c)
    /\ ~Expired(cs[c], t)

\* The map after getCallState: an expired entry is deleted by the read.
GetCallStateCalls(cs, t, c) ==
    IF Truthy(c) /\ HasEntry(cs, c) /\ Expired(cs[c], t)
    THEN MapDelete(cs, c)
    ELSE cs

\* Not the code: a null patch field leaves a stored field as it is.
UpsertNextNullSafe(cs, c, patch) ==
    LET existing == IF HasEntry(cs, c) THEN cs[c].state ELSE EmptyObject IN
    [f \in DOMAIN existing \cup DOMAIN patch |->
        IF f \in DOMAIN patch /\ (patch[f] # NULL \/ f \notin DOMAIN existing)
        THEN patch[f]
        ELSE existing[f]]

\* The session upsertCallState stores and returns.
UpsertNext(cs, c, patch) ==
    Spread(IF HasEntry(cs, c) THEN cs[c].state ELSE EmptyObject, patch)

\* The map after upsertCallState.
UpsertCalls(cs, t, c, patch) ==
    IF ~Truthy(c)
    THEN cs
    ELSE MapSet(cs, c, [state |-> UpsertNext(cs, c, patch), updatedAt |-> t])

\* Mutant of ClearCalls: the entry is left in the map.
ClearCallsKeeps(cs, c) == cs

\* The map after clearCallState.
ClearCalls(cs, c) == IF ~Truthy(c) THEN cs ELSE MapDelete(cs, c)

\* What a function of the store returns: a session, null or undefined.
Returned(kind, state) == [kind |-> kind, state |-> state]

\* No function of the store was called directly.  (found: calls.get(callSid)
\* had an entry when the function was called.)
NoStoreCall == [op |-> "none", callSid |-> NULL, patch |-> EmptyObject,
                found |-> FALSE, returned |-> Returned("none", EmptyObject)]

(***************************************************************************)
(* NLU extraction: src/src/services/nluExtract.js                          *)
(***************************************************************************)
NoFields == [f \in SlotNames |-> NULL]

\* What the extraction model may answer: at most MaxExtracted slots per turn.
Extractions ==
    {e \in [SlotNames -> SlotValues] :
        Cardinality({f \in SlotNames : e[f] # NULL}) <= MaxExtracted}

\* extractFields: the parsed answer, or the default structure on any failure.
ExtractFields(ok, intent, fields) ==
    IF ok
    THEN [intent |-> intent, fields |-> fields]
    ELSE [intent |-> "other", fields |-> NoFields]

(***************************************************************************)
(* Booking tools: src/index.js 162-230                                     *)
(***************************************************************************)
\* What the availability API may do with one request.
CheckOutcomes ==
    {"no_api_key", "fetch_throws", "http_error", "bad_json", "json_null",
     "json_nonobject", "obj_available", "obj_unavailable", "obj_unavailable_err"}

\* What the booking API may do with one request.
BookOutcomes ==
    {"fetch_throws", "bad_json", "json_null", "json_nonobject", "obj_ok",
     "obj_fail"}

\* A tool result: isObject says whether it is a non-null object; flag is its
\* `available` (check) or `ok` (book) field, error its `error` field.
ToolResult(isObject, flag, error) ==
    [isObject |-> isObject, flag |-> flag, error |-> error]

\* callCheckAvailability: every failure is turned into {available: false, error}.
callCheckAvailability(outcome) ==
    CASE outcome = "no_api_key" -> ToolResult(TRUE, FALSE, "Agent API key not configured")
      [] outcome = "fetch_throws" -> ToolResult(TRUE, FALSE, "fetch failed")
      [] outcome = "http_error" -> ToolResult(TRUE, FALSE, "API error")
      [] outcome = "bad_json" -> ToolResult(TRUE, FALSE, "Invalid JSON response")
      [] outcome = "json_null" -> ToolResult(TRUE, FALSE, "Empty response")
      [] outcome = "json_nonobject" -> ToolResult(FALSE, FALSE, NULL)
      [] outcome = "obj_available" -> ToolResult(TRUE, TRUE, NULL)
      [] outcome = "obj_unavailable" -> ToolResult(TRUE, FALSE, NULL)
      [] outcome = "obj_unavailable_err" -> ToolResult(TRUE, FALSE, "slot taken")

\* callBookAppointment: a thrown fetch or json() becomes {ok: false, error};
\* whatever json() returns is passed on as it is.
callBookAppointment(outcome) ==
    CASE outcome = "fetch_throws" -> ToolResult(TRUE, FALSE, "fetch failed")
      [] outcome = "bad_json" -> ToolResult(TRUE, FALSE, "Unexpected token")
      [] outcome = "json_null" -> ToolResult(FALSE, FALSE, NULL)
      [] outcome = "json_nonobject" -> ToolResult(FALSE, FALSE, NULL)
      [] outcome = "obj_ok" -> ToolResult(TRUE, TRUE, NULL)
      [] outcome = "obj_fail" -> ToolResult(TRUE, FALSE, "booking rejected")

\* if (!result || typeof result !== 'object') result = {<flag>: false, error: 'Invalid response'}
NormalizeToolResult(res) ==
    IF ~res.isObject THEN ToolResult(TRUE, FALSE, "Invalid response") ELSE res

\* No tool result yet.
NoResult == ToolResult(FALSE, FALSE, NULL)

(***************************************************************************)
(* POST /api/agent-chat: src/index.js 245-659                              *)
(***************************************************************************)
NoReply == [kind |-> "none", cite |-> NULL]
Reply(kind) == [kind |-> kind, cite |-> NULL]

\* A request slot with no request in it.  The fields are the handler's locals
\* (state, next, checkResult, bookingResult) and what the turn did so far:
\* extracted is the extraction the turn merged into the session (none when the
\* request names no call), branch the cascade rule taken, nCheck and nBook the
\* tool invocations made, cleared whether the session was cleared, timezone
\* the timezone handed to check_availability.
IdleReq ==
    [pc |-> "idle", callSid |-> NULL, business |-> "none", text |-> "none",
     turnIndex |-> 0, profile |-> "none", nlu |-> "none", fault |-> "none",
     state |-> DefaultState, intent |-> "other",
     extracted |-> NoFields, nextDefined |-> FALSE, next |-> DefaultState,
     branch |-> "none", nCheck |-> 0, nBook |-> 0,
     checkOutcome |-> "none", checkResult |-> NoResult,
     bookOutcome |-> "none", bookingResult |-> NoResult,
     cleared |-> FALSE, status |-> "none", reply |-> NoReply,
     timezone |-> NULL]

\* Mutant of MergePatch: the extracted fields are stored as they are.
MergePatchOverwrites(state, fields) ==
    [f \in StateFields |-> IF f = "step" THEN state[f] ELSE fields[f]]

\* The patch of index.js 381-389: step and `extracted.x ?? state.x` per slot.
MergePatch(state, fields) ==
    [f \in StateFields |->
        IF f = "step" THEN state[f] ELSE Coalesce(fields[f], state[f])]

\* Mutant of Branch: the contact rule asks for both email and phone.
BranchNeedsBothContacts(intent, nextDefined, next) ==
    IF intent = "ask_services" THEN "list_services"
    ELSE IF ~nextDefined THEN "fault"
    ELSE IF ~Truthy(next["service"]) THEN "offer_services"
    ELSE IF ~Truthy(next["date"]) \/ ~Truthy(next["time"]) THEN "ask_datetime"
    ELSE IF ~Truthy(next["name"])
            \/ ~Truthy(next["email"]) \/ ~Truthy(next["phone"]) THEN "ask_contact"
    ELSE "tools"

\* Mutant of Branch: the ask_services rule applies only while no service is
\* chosen.
BranchAsksOnlyWithoutService(intent, nextDefined, next) ==
    IF intent = "ask_services" /\ ~(nextDefined /\ Truthy(next["service"]))
    THEN "list_services"
    ELSE IF ~nextDefined THEN "fault"
    ELSE IF ~Truthy(next["service"]) THEN "offer_services"
    ELSE IF ~Truthy(next["date"]) \/ ~Truthy(next["time"]) THEN "ask_datetime"
    ELSE IF ~Truthy(next["name"])
            \/ (~Truthy(next["email"]) /\ ~Truthy(next["phone"])) THEN "ask_contact"
    ELSE "tools"

\* The cascade of index.js 396-435.  Without a callSid upsertCallState
\* returned undefined and reading next.service throws ("fault").
Branch(intent, nextDefined, next) ==
    IF intent = "ask_services" THEN "list_services"
    ELSE IF ~nextDefined THEN "fault"
    ELSE IF ~Truthy(next["service"]) THEN "offer_services"
    ELSE IF ~Truthy(next["date"]) \/ ~Truthy(next["time"]) THEN "ask_datetime"
    ELSE IF ~Truthy(next["name"])
            \/ (~Truthy(next["email"]) /\ ~Truthy(next["phone"])) THEN "ask_contact"
    ELSE "tools"

\* index.js 437, 448: the timezone of last resort.
HardcodedTimezone == "America/Toronto"

\* The timezone a loaded business carries in the core API's data.
BusinessTimezone == "America/Vancouver"

\* An extracted timezone.
ExtractedTimezone == "Europe/Paris"

\* profile.timezone: the business data as loaded; none in the "other"
\* template of an unknown business (businessProfiles.js 130-139); that of the
\* local fallback business after a failed load (businessProfiles.js 86, 108).
ProfileTimezone(profile) ==
    CASE profile \in {"loaded", "malformed_services"} -> BusinessTimezone
      [] profile = "load_failed" -> "America/Toronto"
      [] OTHER -> NULL

\* next.timezone: the property of the stored session, undefined when the
\* session has none.
SessionTimezone(next) ==
    IF "timezone" \in DOMAIN next THEN next["timezone"] ELSE NULL

\* index.js 448: next.timezone || profile.timezone || 'America/Toronto'
ResolveTimezone(next, profile) ==
    IF Truthy(SessionTimezone(next)) THEN SessionTimezone(next)
    ELSE IF Truthy(ProfileTimezone(profile)) THEN ProfileTimezone(profile)
    ELSE HardcodedTimezone

\* An extraction that also names a timezone (nluExtract.js 28, 44).
WithTimezone(fields, tz) ==
    [f \in SlotNames \cup {"timezone"} |->
        IF f = "timezone" THEN tz ELSE fields[f]]

\* Mutant of ShouldBook: any object result leads to a booking.
ShouldBookAnyObject(checkResult) == checkResult.isObject

\* index.js 503: the booking is attempted.
ShouldBook(checkResult) == checkResult.isObject /\ checkResult.flag

\* Mutant of BookingSucceeded: any object result counts as booked.
BookingSucceededAnyObject(bookingResult) == bookingResult.isObject

\* index.js 558: the booking succeeded, the session is cleared.
BookingSucceeded(bookingResult) == bookingResult.isObject /\ bookingResult.flag

\* Mutant of UnavailableReply: the error message is not cited.
UnavailableReplyNoCite(checkResult) == [kind |-> "unavailable", cite |-> NULL]

\* index.js 571-572
UnavailableReply(checkResult) ==
    [kind |-> "unavailable",
     cite |-> IF Truthy(checkResult.error) THEN checkResult.error ELSE NULL]

\* The request slot that serves the turns when they come one at a time.
SeqReq == "r1"

\* What a request carries where the handler looks for businessId
\* ("no_body": request.body is undefined) and for the user text: a text
\* field, a last message with content, neither, a last message that is null,
\* or a text that is not a string.
BusinessInputs == {"present", "absent", "no_body"}
TextInputs == {"text", "last_message", "absent", "null_message", "not_string"}

\* Lines 263-294 up to getTurnIndex: the request is rejected ("invalid"),
\* an exception is thrown ("fault": destructuring an undefined body 263,
\* lastMessage.content on null 275, userText.substring on a non-string 291),
\* or the turn goes on.
Admission(business, text) ==
    IF business = "no_body" THEN "fault"
    ELSE IF business = "absent" THEN "invalid"
    ELSE IF text = "null_message" THEN "fault"
    ELSE IF text = "absent" THEN "invalid"
    ELSE IF text = "not_string" THEN "fault"
    ELSE "valid"

\* Not the code: the counter is left where it was.
AfterGetTurnIndexSame(indices, c) == indices

\* getTurnIndex (84-89): the value it returns, and the counters it leaves.
GetTurnIndex(indices, c) == IF Truthy(c) THEN indices[c] ELSE 0
AfterGetTurnIndex(indices, c) ==
    IF Truthy(c) THEN [indices EXCEPT ![c] = @ + 1] ELSE indices

\* The history of getTurnIndex after one more call of it for a call.
LogTurnIndex(log, indices, c) ==
    IF Truthy(c) THEN [log EXCEPT ![c] = Append(@, GetTurnIndex(indices, c))] ELSE log

\* A call of bestEffortPost that nothing awaits: a transcript (index is its
\* turnIndex), a tool event (index is its toolIndex) or a usage event.
Emission(kind, index) == [kind |-> kind, index |-> index, status |-> "pending"]

\* toolEvents.length (489, 544): the tool events of the turn so far.
ToolIndex(tel) ==
    Len(SelectSeq(tel, LAMBDA e : e.kind \in {"tool_check_availability",
                                              "tool_book_appointment"}))

\* The eventId of the tool event e of call c (490, 545):
\* `${callSid}:tool:${toolName}:${toolIndex}`.
ToolEventId(c, e) == <<c, "tool", e.kind, e.index>>

\* The tool event after a tool call (488-503, 542-556).
ToolTelemetry(tel, c, kind) ==
    IF Truthy(c) THEN Append(tel, Emission(kind, ToolIndex(tel))) ELSE tel

\* The agent transcript and the usage event before the response (582-602).
ReplyTelemetry(tel, c, turnIndex) ==
    IF Truthy(c)
    THEN tel \o <<Emission("agent_transcript", turnIndex), Emission("usage", 0)>>
    ELSE tel

\* Not the code: the catch block emits no transcript.
ErrorTranscriptNever(tel, indices, c) == tel

\* The error transcript of the catch block (635-651), with a turn index of
\* its own.
ErrorTranscript(tel, indices, c) ==
    IF Truthy(c)
    THEN Append(tel, Emission("error_transcript", GetTurnIndex(indices, c)))
    ELSE tel

\* Not the code: the handler awaits its emissions.
Awaited(tel) == \A i \in 1..Len(tel) : tel[i].status # "pending"

\* The emissions are detached (`bestEffortPost(...).catch(() => {})` without
\* await, 298-306, 493-502, 547-556, 583-602): the handler goes on whatever
\* their state.
Detached(tel) == TRUE

\* The catch block's response (620-658).
Faulted(q, cause) ==
    [q EXCEPT !.pc = "done", !.status = "500", !.reply = Reply("error_apology"),
              !.fault = cause]

\* How getBusinessProfile ends (businessProfiles.js 126-176): the business as
\* the core API has it, with a usable catalog or one with a null entry; the
\* template for an unknown business; the local fallback after a failed load.
ProfileOutcomes == {"loaded", "malformed_services", "not_found", "load_failed"}

\* How the completion request of extractFields ends: a JSON object, a failure
\* (HTTP error, throw, unparseable content), or the JSON value null with no
\* usage attached, which extractFields returns as it is (nluExtract.js 92-102).
NluOutcomes == {"object", "failed", "null_result"}

\* The request arrives: validation (263-285), getTurnIndex and the caller
\* transcript (295-307), then `await getBusinessProfile`; or the catch block.
TurnBegin(r, business, text, c) ==
    /\ req[r].pc \in {"idle", "done"}
    /\ business = "no_body" => (text = "absent" /\ c = NoCallSid)
    /\ LET a == Admission(business, text)
           got == [IdleReq EXCEPT !.callSid = c, !.business = business, !.text = text]
       IN
       /\ (a # "invalid" /\ Truthy(c)) => callTurnIndices[c] < MaxTurnIndex
       /\ req' = [req EXCEPT ![r] =
              CASE a = "invalid" -> [got EXCEPT !.pc = "done", !.status = "400",
                                                !.reply = Reply("validation")]
                [] a = "fault" -> Faulted(got, "request")
                [] OTHER -> [got EXCEPT !.pc = "profile",
                                        !.turnIndex = GetTurnIndex(callTurnIndices, c)]]
       /\ callTurnIndices' = IF a = "invalid" THEN callTurnIndices
                             ELSE AfterGetTurnIndex(callTurnIndices, c)
       /\ turnIndexLog' = IF a = "invalid" THEN turnIndexLog
                          ELSE LogTurnIndex(turnIndexLog, callTurnIndices, c)
       /\ telemetry' = [telemetry EXCEPT ![r] =
              CASE a = "invalid" -> <<>>
                [] a = "fault" -> ErrorTranscript(<<>>, callTurnIndices, c)
                [] OTHER -> IF Truthy(c)
                            THEN <<Emission("caller_transcript",
                                            GetTurnIndex(callTurnIndices, c))>>
                            ELSE <<>>]
    /\ UNCHANGED <<calls, now, justBooked>>
    /\ UNCHANGED <<bridgeVars, postVars, storeCall>>

\* getBusinessProfile returns (311-336); the session is read (339-347); then
\* `await extractFields`.
ProfileReturn(r, profile) ==
    /\ req[r].pc = "profile"
    /\ Detached(telemetry[r])
    /\ LET c == req[r].callSid IN
       /\ req' = [req EXCEPT ![r].pc = "nlu",
                             ![r].profile = profile,
                             ![r].state = IF GetCallStateFound(calls, now, c)
                                          THEN calls[c].state
                                          ELSE DefaultState]
       /\ calls' = GetCallStateCalls(calls, now, c)
    /\ UNCHANGED <<now, justBooked, callTurnIndices, telemetry, turnIndexLog>>
    /\ UNCHANGED <<bridgeVars, postVars, storeCall>>

\* The extraction returns: merge (381-389), cascade (396-435) and either the
\* response (576-619, or the catch block 620-658) or `await callCheckAvailability`.
\* With a null entry in the catalog extractFields throws before its request
\* (nluExtract.js 6) and the handler's default extraction stands in (358-371).
NluReturn(r, outcome, intent, fields) ==
    /\ req[r].pc = "nlu"
    /\ Detached(telemetry[r])
    \* an extraction that failed, or was never requested, has no content; and
    \* without a callSid the fields go into a patch that is stored nowhere
    /\ outcome # "object" => (intent = "other" /\ fields = NoFields)
    /\ req[r].profile = "malformed_services" => outcome = "failed"
    /\ ~Truthy(req[r].callSid) => fields = NoFields
    /\ LET c == req[r].callSid
           requested == req[r].profile # "malformed_services"
           x == ExtractFields(requested /\ outcome = "object", intent, fields)
           patch == MergePatch(req[r].state, x.fields)
           defined == Truthy(c)
           next == IF defined THEN UpsertNext(calls, c, patch) ELSE DefaultState
           b == Branch(x.intent, defined, next)
           merged == [req[r] EXCEPT !.state = DefaultState, !.intent = x.intent,
                                    !.nlu = outcome,
                                    !.extracted = IF defined THEN x.fields ELSE NoFields,
                                    !.nextDefined = defined,
                                    !.next = next, !.branch = b,
                                    !.timezone = IF b = "tools"
                                                 THEN ResolveTimezone(next, req[r].profile)
                                                 ELSE NULL]
       IN
       IF requested /\ outcome = "null_result"
       THEN \* `extracted._usage` on null throws (375)
            /\ req' = [req EXCEPT ![r] =
                   Faulted([req[r] EXCEPT !.state = DefaultState, !.nlu = outcome],
                           "null_extraction")]
            /\ callTurnIndices' = AfterGetTurnIndex(callTurnIndices, c)
            /\ turnIndexLog' = LogTurnIndex(turnIndexLog, callTurnIndices, c)
            /\ telemetry' = [telemetry EXCEPT ![r] =
                                ErrorTranscript(@, callTurnIndices, c)]
            /\ UNCHANGED <<calls, justBooked>>
       ELSE /\ calls' = UpsertCalls(calls, now, c, patch)
            /\ req' = [req EXCEPT ![r] =
                   CASE b = "tools" -> [merged EXCEPT !.pc = "check", !.nCheck = @ + 1]
                     [] b = "fault" -> Faulted(merged, "no_call_state")
                     [] OTHER -> [merged EXCEPT !.pc = "done", !.status = "200",
                                                !.reply = Reply(b)]]
            /\ callTurnIndices' = IF b = "fault"
                                  THEN AfterGetTurnIndex(callTurnIndices, c)
                                  ELSE callTurnIndices
            /\ turnIndexLog' = IF b = "fault"
                               THEN LogTurnIndex(turnIndexLog, callTurnIndices, c)
                               ELSE turnIndexLog
            /\ telemetry' = [telemetry EXCEPT ![r] =
                   CASE b = "tools" -> @
                     [] b = "fault" -> ErrorTranscript(@, callTurnIndices, c)
                     [] OTHER -> ReplyTelemetry(@, c, req[r].turnIndex)]
            /\ justBooked' = justBooked \ {c}
    /\ UNCHANGED now
    /\ UNCHANGED <<bridgeVars, postVars, storeCall>>

\* check_availability returns (464-503): book (506-519) or reply unavailable.
CheckReturn(r, outcome) ==
    /\ req[r].pc = "check"
    /\ Detached(telemetry[r])
    /\ LET c == req[r].callSid
           checkResult == NormalizeToolResult(callCheckAvailability(outcome))
           got == [req[r] EXCEPT !.checkOutcome = outcome,
                                 !.checkResult = checkResult]
           tel == ToolTelemetry(telemetry[r], c, "tool_check_availability")
       IN
       /\ req' = [req EXCEPT ![r] =
              IF ShouldBook(checkResult)
              THEN [got EXCEPT !.pc = "book", !.nBook = @ + 1]
              ELSE [got EXCEPT !.pc = "done", !.status = "200",
                               !.reply = UnavailableReply(checkResult)]]
       /\ telemetry' = [telemetry EXCEPT ![r] =
              IF ShouldBook(checkResult) THEN tel
              ELSE ReplyTelemetry(tel, c, req[r].turnIndex)]
    /\ UNCHANGED <<calls, now, justBooked, callTurnIndices, turnIndexLog>>
    /\ UNCHANGED <<bridgeVars, postVars, storeCall>>

\* book_appointment returns (514-569): confirm and clear, or apologise.
BookReturn(r, outcome) ==
    /\ req[r].pc = "book"
    /\ Detached(telemetry[r])
    /\ LET c == req[r].callSid
           bookingResult == NormalizeToolResult(callBookAppointment(outcome))
           ok == BookingSucceeded(bookingResult)
       IN
       /\ req' = [req EXCEPT ![r].pc = "done", ![r].status = "200",
                             ![r].bookOutcome = outcome,
                             ![r].bookingResult = bookingResult,
                             ![r].cleared = ok,
                             ![r].reply = IF ok THEN Reply("booked")
                                          ELSE Reply("retry")]
       /\ calls' = IF ok THEN ClearCalls(calls, c) ELSE calls
       /\ justBooked' = IF ok /\ Truthy(c) THEN justBooked \cup {c} ELSE justBooked
       /\ telemetry' = [telemetry EXCEPT ![r] =
              ReplyTelemetry(ToolTelemetry(@, c, "tool_book_appointment"),
                             c, req[r].turnIndex)]
    /\ UNCHANGED <<now, callTurnIndices, turnIndexLog>>
    /\ UNCHANGED <<bridgeVars, postVars, storeCall>>

\* What the telemetry sink does with an emission: it takes it, or the call
\* of bestEffortPost ends with the event dropped (non-2xx, or timed out
\* twice).  A sink that never answers leaves the emission pending.
SinkOutcomes == {"delivered", "dropped"}

\* An emission in flight ends; its `.catch(() => {})` has nothing to do.
TelemetrySettle(r, i, outcome) ==
    /\ i \in 1..Len(telemetry[r])
    /\ telemetry[r][i].status = "pending"
    /\ telemetry' = [telemetry EXCEPT ![r][i].status = outcome]
    /\ UNCHANGED <<calls, now, req, justBooked, callTurnIndices, turnIndexLog>>
    /\ UNCHANGED <<bridgeVars, postVars, storeCall>>

\* Time passes: longer than the session TTL.  (Not part of TurnNext, whose
\* turns all fall within one TTL window.)
Tick ==
    /\ now < MaxTicks * (TTL_MS + 1)
    /\ now' = now + TTL_MS + 1
    /\ UNCHANGED <<calls, req, justBooked, callTurnIndices, telemetry, turnIndexLog>>
    /\ UNCHANGED <<bridgeVars, postVars, storeCall>>

TurnInit ==
    /\ calls = EmptyObject
    /\ now = 0
    /\ req = [r \in Reqs |-> IdleReq]
    /\ justBooked = {}
    /\ callTurnIndices = [c \in CallIds |-> 0]
    /\ telemetry = [r \in Reqs |-> <<>>]
    /\ turnIndexLog = [c \in CallIds |-> <<>>]
    /\ storeCall = NoStoreCall

(***************************************************************************)
(* The session store called directly: src/src/state/callState.js           *)
(***************************************************************************)
\* The call identifiers of two calls, and the falsy values a caller may pass
\* for one.
StoreIds == CallIds \cup {"CA2"}
FalsyCallSids == {NULL, EMPTY}

\* Patches: objects that have some of two fields, each null or a value.
PatchFields == {"service", "date"}
Patches == UNION {[D -> {NULL, "v1"}] : D \in SUBSET PatchFields}

\* The instants the clock is read at after the start: each multiple of the
\* TTL and the millisecond after it.
Instants == {k * TTL_MS + j : k \in 1..MaxTicks, j \in {0, 1}}

\* getCallState(callSid) (7-16)
StoreGet(c) ==
    /\ calls' = GetCallStateCalls(calls, now, c)
    /\ storeCall' = [op |-> "getCallState", callSid |-> c, patch |-> EmptyObject,
                     found |-> Truthy(c) /\ HasEntry(calls, c),
                     returned |-> IF GetCallStateFound(calls, now, c)
                                  THEN Returned("session", calls[c].state)
                                  ELSE Returned("null", EmptyObject)]
    /\ UNCHANGED <<now, req, justBooked, callTurnIndices, telemetry, turnIndexLog>>
    /\ UNCHANGED <<bridgeVars, postVars>>

\* upsertCallState(callSid, patch) (18-24)
StoreUpsert(c, patch) ==
    /\ calls' = UpsertCalls(calls, now, c, patch)
    /\ storeCall' = [op |-> "upsertCallState", callSid |-> c, patch |-> patch,
                     found |-> Truthy(c) /\ HasEntry(calls, c),
                     returned |-> IF Truthy(c)
                                  THEN Returned("session", UpsertNext(calls, c, patch))
                                  ELSE Returned("undefined", EmptyObject)]
    /\ UNCHANGED <<now, req, justBooked, callTurnIndices, telemetry, turnIndexLog>>
    /\ UNCHANGED <<bridgeVars, postVars>>

\* clearCallState(callSid) (26-29)
StoreClear(c) ==
    /\ calls' = ClearCalls(calls, c)
    /\ storeCall' = [op |-> "clearCallState", callSid |-> c, patch |-> EmptyObject,
                     found |-> Truthy(c) /\ HasEntry(calls, c),
                     returned |-> Returned("undefined", EmptyObject)]
    /\ UNCHANGED <<now, req, justBooked, callTurnIndices, telemetry, turnIndexLog>>
    /\ UNCHANGED <<bridgeVars, postVars>>

\* Date.now() moves on to a later instant; nothing runs in between.
Elapse(t) ==
    /\ t > now
    /\ now' = t
    /\ UNCHANGED <<calls, req, justBooked, callTurnIndices, telemetry, turnIndexLog,
                   storeCall>>
    /\ UNCHANGED <<bridgeVars, postVars>>

(***************************************************************************)
(* Audio bridge: the /media-stream handler, src/index.js 694-982           *)
(***************************************************************************)
\* responseStartTimestampTwilio = null
NoTimestamp == -1

\* Timestamps the transport may report on a media frame (milliseconds).
MediaTimestamps == {0, 1000, 1450}
StreamSids == {"MZ1", "MZ2"}
ItemIds == {"item_1", "item_2"}

\* Frames on the two legs.
TwilioFrame(event, sid) == [event |-> event, streamSid |-> sid]
ModelFrame(type, item, ms) == [type |-> type, item_id |-> item, audio_end_ms |-> ms]

\* ws send(): a frame is delivered on an open socket and dropped on a closing
\* or closed one.
SendTwilio(frames) == IF twilioState = "open" THEN frames ELSE <<>>

\* Not the code: what is sent to the model socket arrives in any state of it.
SendModelAlways(frames) == frames
SendModel(frames) == IF wsState = "OPEN" THEN frames ELSE <<>>

\* Not the code: a media frame is forwarded whatever the model socket's state.
TwilioMediaUnguarded(ts) ==
    /\ twilioState = "open"
    /\ latestMediaTimestamp' = ts
    /\ outModel' = <<ModelFrame("input_audio_buffer.append", NULL, 0)>>
    /\ outTwilio' = <<>>
    /\ lastEvent' = "media"
    /\ UNCHANGED <<streamSid, lastAssistantItem, markQueue,
                   responseStartTimestampTwilio, twilioState, wsState>>
    /\ UNCHANGED <<turnVars, postVars, toolCalls, marksInFlight, ignoredToolCalls>>

\* Mutant of Interrupts: either condition is enough.
InterruptsEither(queue, start) == Len(queue) > 0 \/ start # NoTimestamp

\* The condition of handleSpeechStartedEvent (775).
Interrupts(queue, start) == Len(queue) > 0 /\ start # NoTimestamp

\* Mutant of TruncateFrames: the absolute timestamp instead of the elapsed time.
TruncateFramesAbsolute(item, latest, start) ==
    IF Truthy(item)
    THEN <<ModelFrame("conversation.item.truncate", item, latest)>>
    ELSE <<>>

\* The truncate instruction of handleSpeechStartedEvent (776-788).
TruncateFrames(item, latest, start) ==
    IF Truthy(item)
    THEN <<ModelFrame("conversation.item.truncate", item, latest - start)>>
    ELSE <<>>

\* `!responseStartTimestampTwilio` (896): null and 0 are both falsy.
StartUnset(start) == start = NoTimestamp \/ start = 0

\* The tool calls the model can issue, in the order a requires_action event
\* lists them, and the identifiers of the responses that carry them.
ToolCallOrder == <<"call_1", "call_2">>
ToolCallIds == {ToolCallOrder[i] : i \in 1..Len(ToolCallOrder)}
ResponseIds == {"resp_1", "resp_2"}

\* No handleBookAppointment was started for the tool call.
NoToolCall == [status |-> "none", responseId |-> NULL, openAtCall |-> FALSE,
               transportAtCall |-> FALSE, outcome |-> NULL, delivered |-> 0]

\* The marks the transport holds: those sent before the last barge-in reset
\* (stale) and those sent since (current).
NoMarksInFlight == [stale |-> 0, current |-> 0]

\* The mark frames among the frames delivered to the transport.
MarksDelivered(frames) ==
    Len(SelectSeq(frames, LAMBDA f : f.event = "mark"))

\* The transport echoes the oldest mark it holds.
AfterEcho(m) ==
    IF m.stale > 0 THEN [m EXCEPT !.stale = @ - 1]
    ELSE IF m.current > 0 THEN [m EXCEPT !.current = @ - 1]
    ELSE m

BridgeInit ==
    /\ streamSid = NULL
    /\ latestMediaTimestamp = 0
    /\ lastAssistantItem = NULL
    /\ markQueue = <<>>
    /\ responseStartTimestampTwilio = NoTimestamp
    /\ twilioState = "open"
    /\ wsState = "CONNECTING"
    /\ lastEvent = "none"
    /\ outModel = <<>>
    /\ outTwilio = <<>>
    /\ toolCalls = [id \in ToolCallIds |-> NoToolCall]
    /\ marksInFlight = NoMarksInFlight
    /\ ignoredToolCalls = {}

\* connection.on('message'), case 'media' (935-945).
TwilioMedia(ts) ==
    /\ twilioState = "open"
    /\ latestMediaTimestamp' = ts
    /\ outModel' = SendModel(<<ModelFrame("input_audio_buffer.append", NULL, 0)>>)
    /\ outTwilio' = <<>>
    /\ lastEvent' = "media"
    /\ UNCHANGED <<streamSid, lastAssistantItem, markQueue,
                   responseStartTimestampTwilio, twilioState, wsState>>
    /\ UNCHANGED <<turnVars, postVars, toolCalls, marksInFlight, ignoredToolCalls>>

\* Not the code: a start event also empties the mark queue.
TwilioStartClearsQueue(sid) ==
    /\ twilioState = "open"
    /\ streamSid' = sid
    /\ responseStartTimestampTwilio' = NoTimestamp
    /\ latestMediaTimestamp' = 0
    /\ markQueue' = <<>>
    /\ outModel' = <<>>
    /\ outTwilio' = <<>>
    /\ lastEvent' = "start"
    /\ UNCHANGED <<lastAssistantItem, twilioState, wsState>>
    /\ UNCHANGED <<turnVars, postVars, toolCalls, marksInFlight, ignoredToolCalls>>

\* Not the code: a start event leaves responseStartTimestampTwilio as it is.
TwilioStartKeepsResponseStart(sid) ==
    /\ twilioState = "open"
    /\ streamSid' = sid
    /\ latestMediaTimestamp' = 0
    /\ outModel' = <<>>
    /\ outTwilio' = <<>>
    /\ lastEvent' = "start"
    /\ UNCHANGED <<lastAssistantItem, markQueue, responseStartTimestampTwilio,
                   twilioState, wsState>>
    /\ UNCHANGED <<turnVars, postVars, toolCalls, marksInFlight, ignoredToolCalls>>

\* connection.on('message'), case 'start' (946-953).
TwilioStart(sid) ==
    /\ twilioState = "open"
    /\ streamSid' = sid
    /\ responseStartTimestampTwilio' = NoTimestamp
    /\ latestMediaTimestamp' = 0
    /\ outModel' = <<>>
    /\ outTwilio' = <<>>
    /\ lastEvent' = "start"
    /\ UNCHANGED <<lastAssistantItem, markQueue, twilioState, wsState>>
    /\ UNCHANGED <<turnVars, postVars, toolCalls, marksInFlight, ignoredToolCalls>>

\* connection.on('message'), case 'mark' (954-958).
TwilioMark ==
    /\ twilioState = "open"
    /\ markQueue' = IF Len(markQueue) > 0 THEN Tail(markQueue) ELSE markQueue
    /\ marksInFlight' = AfterEcho(marksInFlight)
    /\ outModel' = <<>>
    /\ outTwilio' = <<>>
    /\ lastEvent' = "mark"
    /\ UNCHANGED <<streamSid, latestMediaTimestamp, lastAssistantItem,
                   responseStartTimestampTwilio, twilioState, wsState>>
    /\ UNCHANGED <<turnVars, postVars, toolCalls, ignoredToolCalls>>

\* connection.on('close') (969-972).
TwilioClose ==
    /\ twilioState = "open"
    /\ twilioState' = "closed"
    /\ wsState' = IF wsState = "OPEN" THEN "CLOSING" ELSE wsState
    /\ outModel' = <<>>
    /\ outTwilio' = <<>>
    /\ lastEvent' = "twilio_close"
    /\ UNCHANGED <<streamSid, latestMediaTimestamp, lastAssistantItem, markQueue,
                   responseStartTimestampTwilio>>
    /\ UNCHANGED <<turnVars, postVars, toolCalls, marksInFlight, ignoredToolCalls>>

\* openAiWs.on('open') (873-876): the connection attempt succeeds.  The handler
\* schedules initializeSession, whose session.update frame carries the
\* configuration and touches no state of the bridge.
WsOpen ==
    /\ wsState = "CONNECTING"
    /\ wsState' = "OPEN"
    /\ outModel' = <<>>
    /\ outTwilio' = <<>>
    /\ lastEvent' = "ws_open"
    /\ UNCHANGED <<streamSid, latestMediaTimestamp, lastAssistantItem, markQueue,
                   responseStartTimestampTwilio, twilioState>>
    /\ UNCHANGED <<turnVars, postVars, toolCalls, marksInFlight, ignoredToolCalls>>

\* openAiWs.on('error') / on('close') (975-981): the connection attempt fails
\* or the peer closes the socket.  The handlers only log.
WsPeerClose ==
    /\ wsState \in {"CONNECTING", "OPEN"}
    /\ wsState' = "CLOSED"
    /\ outModel' = <<>>
    /\ outTwilio' = <<>>
    /\ lastEvent' = "ws_close"
    /\ UNCHANGED <<streamSid, latestMediaTimestamp, lastAssistantItem, markQueue,
                   responseStartTimestampTwilio, twilioState>>
    /\ UNCHANGED <<turnVars, postVars, toolCalls, marksInFlight, ignoredToolCalls>>

\* openAiWs.on('close') (975-977) after openAiWs.close(): the closing
\* handshake completes.
WsCloseHandshake ==
    /\ wsState = "CLOSING"
    /\ wsState' = "CLOSED"
    /\ outModel' = <<>>
    /\ outTwilio' = <<>>
    /\ lastEvent' = "ws_close"
    /\ UNCHANGED <<streamSid, latestMediaTimestamp, lastAssistantItem, markQueue,
                   responseStartTimestampTwilio, twilioState>>
    /\ UNCHANGED <<turnVars, postVars, toolCalls, marksInFlight, ignoredToolCalls>>

\* The model socket delivers messages while it is open, and still does while
\* its closing handshake is under way.
WsReceiving == wsState \in {"OPEN", "CLOSING"}

\* Not the code: sendMark sends and enqueues whether or not streamSid is bound.
WsAudioDeltaMarksUnbound(hasDelta, item) ==
    /\ WsReceiving
    /\ Len(markQueue) < MaxMarks
    /\ marksInFlight.stale + marksInFlight.current < 2 * MaxMarks
    /\ lastEvent' = "audio_delta"
    /\ outModel' = <<>>
    /\ IF ~hasDelta
       THEN /\ outTwilio' = <<>>
            /\ UNCHANGED <<responseStartTimestampTwilio, lastAssistantItem, markQueue>>
       ELSE /\ outTwilio' = SendTwilio(<<TwilioFrame("media", streamSid),
                                         TwilioFrame("mark", streamSid)>>)
            /\ responseStartTimestampTwilio' =
                    IF StartUnset(responseStartTimestampTwilio)
                    THEN latestMediaTimestamp
                    ELSE responseStartTimestampTwilio
            /\ lastAssistantItem' = IF Truthy(item) THEN item ELSE lastAssistantItem
            /\ markQueue' = Append(markQueue, "responsePart")
    /\ marksInFlight' = [marksInFlight EXCEPT !.current = @ + MarksDelivered(outTwilio')]
    /\ UNCHANGED <<streamSid, latestMediaTimestamp, twilioState, wsState>>
    /\ UNCHANGED <<turnVars, postVars, toolCalls, ignoredToolCalls>>

\* openAiWs.on('message'), response.output_audio.delta (887-906) with
\* sendMark (803-813).
WsAudioDelta(hasDelta, item) ==
    /\ WsReceiving
    /\ Len(markQueue) < MaxMarks
    /\ marksInFlight.stale + marksInFlight.current < 2 * MaxMarks
    /\ lastEvent' = "audio_delta"
    /\ outModel' = <<>>
    /\ IF ~hasDelta
       THEN /\ outTwilio' = <<>>
            /\ UNCHANGED <<responseStartTimestampTwilio, lastAssistantItem, markQueue>>
       ELSE /\ outTwilio' = SendTwilio(
                    <<TwilioFrame("media", streamSid)>>
                    \o (IF Truthy(streamSid)
                        THEN <<TwilioFrame("mark", streamSid)>> ELSE <<>>))
            /\ responseStartTimestampTwilio' =
                    IF StartUnset(responseStartTimestampTwilio)
                    THEN latestMediaTimestamp
                    ELSE responseStartTimestampTwilio
            /\ lastAssistantItem' = IF Truthy(item) THEN item ELSE lastAssistantItem
            /\ markQueue' = IF Truthy(streamSid)
                            THEN Append(markQueue, "responsePart")
                            ELSE markQueue
    /\ marksInFlight' = [marksInFlight EXCEPT !.current = @ + MarksDelivered(outTwilio')]
    /\ UNCHANGED <<streamSid, latestMediaTimestamp, twilioState, wsState>>
    /\ UNCHANGED <<turnVars, postVars, toolCalls, ignoredToolCalls>>

\* openAiWs.on('message'), input_audio_buffer.speech_started (908-910) with
\* handleSpeechStartedEvent (774-800).
WsSpeechStarted ==
    /\ WsReceiving
    /\ lastEvent' = "speech_started"
    /\ IF Interrupts(markQueue, responseStartTimestampTwilio)
       THEN /\ outModel' = SendModel(TruncateFrames(lastAssistantItem,
                              latestMediaTimestamp, responseStartTimestampTwilio))
            /\ outTwilio' = SendTwilio(<<TwilioFrame("clear", streamSid)>>)
            /\ markQueue' = <<>>
            /\ lastAssistantItem' = NULL
            /\ responseStartTimestampTwilio' = NoTimestamp
            /\ marksInFlight' = [stale |-> marksInFlight.stale + marksInFlight.current,
                                 current |-> 0]
       ELSE /\ outModel' = <<>>
            /\ outTwilio' = <<>>
            /\ UNCHANGED <<markQueue, lastAssistantItem, responseStartTimestampTwilio,
                           marksInFlight>>
    /\ UNCHANGED <<streamSid, latestMediaTimestamp, twilioState, wsState>>
    /\ UNCHANGED <<turnVars, postVars, toolCalls, ignoredToolCalls>>

(***************************************************************************)
(* Tool calls on the audio channel (src/index.js 815-870, 912-923)         *)
(***************************************************************************)
\* A tool call of a requires_action event: its type, its function name, and
\* whether handleBookAppointment gets through its arguments (JSON.parse and
\* guestPhone.trim(), 818-823) without throwing.
ToolCallShapes ==
    [type : {"function", "other"},
     name : {"book_appointment", "check_availability"},
     argsOk : BOOLEAN]

\* How the booking API call of handleBookAppointment ends (835-843): a JSON
\* answer (a booking or the API's own error object), fetch throwing, or
\* the body not being JSON.
BookingApiOutcomes == {"api_ok", "api_error", "fetch_throws", "json_throws"}

\* Not the code: every function call is dispatched to handleBookAppointment.
RecognizedAnyFunction(tc) == tc.type = "function"

\* The dispatch test of the requires_action loop (918).
Recognized(tc) == tc.type = "function" /\ tc.name = "book_appointment"

\* The output of a tool call: the API's JSON as it came (849), or the
\* error-shaped object {error: message} of the catch block (860).
ToolOutput(outcome) ==
    CASE outcome = "api_ok" -> "result_ok"
      [] outcome = "api_error" -> "result_error"
      [] OTHER -> "error"

SubmitFrame(respId, id, output) ==
    [type |-> "response.submit_tool_outputs", response_id |-> respId,
     tool_call_id |-> id, output |-> output]

\* Not the code: an error in handling the tool call is swallowed.
SubmitFramesOnAnswerOnly(respId, id, outcome) ==
    IF outcome \in {"api_ok", "api_error"}
    THEN <<SubmitFrame(respId, id, ToolOutput(outcome))>>
    ELSE <<>>

\* handleBookAppointment's send, on either path (845-853, 857-867).
SubmitFrames(respId, id, outcome) ==
    <<SubmitFrame(respId, id, ToolOutput(outcome))>>

\* The tool calls of one event that handleBookAppointment is started for.
Dispatched(S, shape) == {id \in S : Recognized(shape[id])}

\* The frames the event's handler sends itself: a tool call whose arguments
\* throw reaches the catch block before the first await.
RECURSIVE ParseFailureFrames(_, _, _, _)
ParseFailureFrames(order, respId, S, shape) ==
    IF order = <<>> THEN <<>>
    ELSE (IF Head(order) \in Dispatched(S, shape) /\ ~shape[Head(order)].argsOk
          THEN SubmitFrames(respId, Head(order), "parse_throws")
          ELSE <<>>)
         \o ParseFailureFrames(Tail(order), respId, S, shape)

\* openAiWs.on('message'), response.requires_action (912-923), with the part
\* of handleBookAppointment (815-833) that runs before its first await.
WsRequiresAction(respId, S, shape) ==
    /\ WsReceiving
    /\ \A id \in S : toolCalls[id].status = "none"
    /\ lastEvent' = "requires_action"
    /\ outModel' = SendModel(ParseFailureFrames(ToolCallOrder, respId, S, shape))
    /\ outTwilio' = <<>>
    /\ toolCalls' =
         [id \in ToolCallIds |->
            IF id \notin Dispatched(S, shape) THEN toolCalls[id]
            ELSE IF shape[id].argsOk
            THEN [status |-> "pending", responseId |-> respId,
                  openAtCall |-> (wsState = "OPEN"),
                  transportAtCall |-> (twilioState = "open"),
                  outcome |-> NULL, delivered |-> 0]
            ELSE [status |-> "done", responseId |-> respId,
                  openAtCall |-> (wsState = "OPEN"),
                  transportAtCall |-> (twilioState = "open"),
                  outcome |-> "parse_throws",
                  delivered |-> Len(SendModel(SubmitFrames(respId, id, "parse_throws")))]]
    /\ ignoredToolCalls' = S \ Dispatched(S, shape)
    /\ UNCHANGED <<audioVars, twilioState, wsState>>
    /\ UNCHANGED <<turnVars, postVars, marksInFlight>>

\* handleBookAppointment after its awaits (835-868): the booking API call of
\* tool call id has ended, and its output is submitted.
ToolCallReturn(id, outcome) ==
    /\ toolCalls[id].status = "pending"
    /\ lastEvent' = "tool_result"
    /\ outModel' = SendModel(SubmitFrames(toolCalls[id].responseId, id, outcome))
    /\ outTwilio' = <<>>
    /\ toolCalls' = [toolCalls EXCEPT ![id] =
            [status |-> "done", responseId |-> toolCalls[id].responseId,
             openAtCall |-> toolCalls[id].openAtCall,
             transportAtCall |-> toolCalls[id].transportAtCall,
             outcome |-> outcome,
             delivered |-> Len(SendModel(SubmitFrames(toolCalls[id].responseId,
                                                      id, outcome)))]]
    /\ UNCHANGED <<audioVars, twilioState, wsState>>
    /\ UNCHANGED <<turnVars, postVars, marksInFlight, ignoredToolCalls>>

(***************************************************************************)
(* bestEffortPost (src/unnamed/part_000)                                   *)
(***************************************************************************)
MAX_RETRIES == 1

\* options.retryCount as the caller passes it: undefined or a count.
NoRetryCount == -1
RetryCountOptions == {NoRetryCount, 0, 1, 2}

\* How one fetch attempt ends: a 2xx answer whose body parses or does not, a
\* non-2xx answer (its body unreadable, plain, or holding the word "timeout"
\* or "network"), the abort timer firing, or fetch failing with a message
\* that names the network or one that does not ("fetch failed").
AttemptOutcomes ==
    {"ok_json", "ok_bad_json",
     "http_text_fails", "http_plain", "http_body_timeout", "http_body_network",
     "abort", "network_error", "fetch_failed"}

\* The error the catch block sees (27, 32): its name and its message.
ErrorOf(outcome) ==
    CASE outcome = "http_text_fails" -> [name |-> "Error", message |-> "HTTP 500: Unknown error"]
      [] outcome = "http_plain" -> [name |-> "Error", message |-> "HTTP 500: Internal Server Error"]
      [] outcome = "http_body_timeout" -> [name |-> "Error", message |-> "HTTP 504: upstream timeout"]
      [] outcome = "http_body_network" -> [name |-> "Error", message |-> "HTTP 502: network unreachable"]
      [] outcome = "abort" -> [name |-> "AbortError", message |-> "This operation was aborted"]
      [] outcome = "network_error" -> [name |-> "TypeError", message |-> "network error"]
      [] OTHER -> [name |-> "TypeError", message |-> "fetch failed"]

\* error.message.includes(word), for the messages of ErrorOf.
Includes(message, word) ==
    \/ word = "timeout" /\ message = "HTTP 504: upstream timeout"
    \/ word = "network" /\ message \in {"HTTP 502: network unreachable", "network error"}

\* The retry test on the error (36).
Retryable(error) ==
    \/ error.name = "AbortError"
    \/ Includes(error.message, "timeout")
    \/ Includes(error.message, "network")

\* Not the code: the retry budget is two.
RetryBudgetLeftOfTwo(retryCount) == retryCount = NoRetryCount \/ retryCount < MAX_RETRIES + 1

\* The retry test on the count (35).
RetryBudgetLeft(retryCount) == retryCount = NoRetryCount \/ retryCount < MAX_RETRIES

\* (options.retryCount || 0) + 1 (38).
NextRetryCount(retryCount) ==
    (IF retryCount = NoRetryCount \/ retryCount = 0 THEN 0 ELSE retryCount) + 1

\* Not the code: a body that is not JSON is not caught.
ResponseValueUncaught(outcome) == IF outcome = "ok_json" THEN "parsed" ELSE "rejected"

\* response.json().catch(() => ({})) (30).
ResponseValue(outcome) == IF outcome = "ok_json" THEN "parsed" ELSE "empty_object"

\* `given` is the retryCount the caller passed, `retryCount` the one of the
\* invocation in progress, `log` the outcomes of the attempts so far.
IdlePost == [pc |-> "idle", given |-> NoRetryCount, retryCount |-> NoRetryCount,
             attempts |-> 0, log |-> <<>>, value |-> NULL]

PostInit == post = IdlePost

\* A caller calls bestEffortPost(url, data, options): the first fetch is
\* issued (7-22).
PostCall(retryCount) ==
    /\ post.pc \in {"idle", "returned"}
    /\ post' = [pc |-> "attempt", given |-> retryCount, retryCount |-> retryCount,
                attempts |-> 1, log |-> <<>>, value |-> NULL]
    /\ UNCHANGED <<turnVars, bridgeVars>>

\* The fetch in flight ends (22-45): the call returns, or calls itself.
PostAttemptReturn(outcome) ==
    /\ post.pc = "attempt"
    /\ post' =
         IF outcome \in {"ok_json", "ok_bad_json"}
         THEN [post EXCEPT !.pc = "returned", !.log = Append(@, outcome),
                           !.value = ResponseValue(outcome)]
         ELSE IF RetryBudgetLeft(post.retryCount) /\ Retryable(ErrorOf(outcome))
         THEN [post EXCEPT !.retryCount = NextRetryCount(@),
                           !.attempts = @ + 1, !.log = Append(@, outcome)]
         ELSE [post EXCEPT !.pc = "returned", !.log = Append(@, outcome),
                           !.value = "null"]
    /\ UNCHANGED <<turnVars, bridgeVars>>

(***************************************************************************)
(* Specifications                                                          *)
(***************************************************************************)
Init == TurnInit /\ BridgeInit /\ PostInit

\* The text-turn path with one turn in flight at a time, all turns within
\* one TTL window: requests with a body that are well-formed, or lack the
\* businessId or the text, and whose upstream calls answer.
\* The intents the cascade tells apart (index.js 397 tests for ask_services
\* only): ask_services, and two of the others.
TurnIntents == {"book", "ask_services", "other"}

TurnNext ==
    \/ \E c \in CallIds \cup {NoCallSid} : TurnBegin(SeqReq, "present", "text", c)
    \/ \E c \in CallIds : TurnBegin(SeqReq, "absent", "text", c)
    \/ \E c \in CallIds : TurnBegin(SeqReq, "present", "absent", c)
    \/ ProfileReturn(SeqReq, "loaded")
    \/ \E outcome \in {"object", "failed"}, intent \in TurnIntents, fields \in Extractions :
          NluReturn(SeqReq, outcome, intent, fields)
    \/ \E outcome \in CheckOutcomes : CheckReturn(SeqReq, outcome)
    \/ \E outcome \in BookOutcomes : BookReturn(SeqReq, outcome)

TurnSpec == Init /\ [][TurnNext]_vars

\* An extraction that names every slot.
FullFields == [f \in SlotNames |-> "v1"]

\* The text-turn path with every shape of request and every way its upstream
\* calls can end, for extractions that name no slot or every slot.
FaultNext ==
    \/ \E business \in BusinessInputs, text \in TextInputs,
          c \in CallIds \cup {NoCallSid} :
          TurnBegin(SeqReq, business, text, c)
    \/ \E profile \in ProfileOutcomes : ProfileReturn(SeqReq, profile)
    \/ \E outcome \in NluOutcomes, intent \in Intents, fields \in {NoFields, FullFields} :
          NluReturn(SeqReq, outcome, intent, fields)
    \/ \E outcome \in CheckOutcomes : CheckReturn(SeqReq, outcome)
    \/ \E outcome \in BookOutcomes : BookReturn(SeqReq, outcome)

FaultSpec == Init /\ [][FaultNext]_vars

\* The text-turn path for extractions that may name a timezone, with every
\* way the profile load ends that leaves a usable catalog.
TimezoneNext ==
    \/ \E c \in CallIds : TurnBegin(SeqReq, "present", "text", c)
    \/ \E profile \in {"loaded", "not_found", "load_failed"} :
          ProfileReturn(SeqReq, profile)
    \/ \E fields \in {NoFields, FullFields}, tz \in {NULL, ExtractedTimezone} :
          NluReturn(SeqReq, "object", "book", WithTimezone(fields, tz))
    \/ NluReturn(SeqReq, "failed", "other", NoFields)
    \/ \E outcome \in {"obj_available", "obj_unavailable"} : CheckReturn(SeqReq, outcome)
    \/ \E outcome \in {"obj_ok", "obj_fail"} : BookReturn(SeqReq, outcome)

TimezoneSpec == Init /\ [][TimezoneNext]_vars

\* The text-turn path of well-formed requests together with the telemetry
\* sink, which settles the emissions in flight in any order, or never.
TelemetryNext ==
    \/ \E c \in CallIds \cup {NoCallSid} : TurnBegin(SeqReq, "present", "text", c)
    \/ ProfileReturn(SeqReq, "loaded")
    \/ \E outcome \in {"object", "null_result"}, intent \in {"book", "ask_services"},
          fields \in {NoFields, FullFields} :
          NluReturn(SeqReq, outcome, intent, fields)
    \/ \E outcome \in {"obj_available", "obj_unavailable"} : CheckReturn(SeqReq, outcome)
    \/ \E outcome \in {"obj_ok", "obj_fail"} : BookReturn(SeqReq, outcome)
    \/ \E i \in 1..Len(telemetry[SeqReq]), outcome \in SinkOutcomes :
          TelemetrySettle(SeqReq, i, outcome)

TelemetrySpec == Init /\ [][TelemetryNext]_vars

\* The upstream calls of a turn return; of the telemetry sink nothing is
\* assumed.
TelemetryFairSpec ==
    /\ TelemetrySpec
    /\ WF_vars(ProfileReturn(SeqReq, "loaded"))
    /\ WF_vars(\E outcome \in {"object", "null_result"}, intent \in {"book", "ask_services"},
                  fields \in {NoFields, FullFields} :
                  NluReturn(SeqReq, outcome, intent, fields))
    /\ WF_vars(\E outcome \in {"obj_available", "obj_unavailable"} : CheckReturn(SeqReq, outcome))
    /\ WF_vars(\E outcome \in {"obj_ok", "obj_fail"} : BookReturn(SeqReq, outcome))

\* The audio bridge of one call.
BridgeNext ==
    \/ \E ts \in MediaTimestamps : TwilioMedia(ts)
    \/ \E sid \in StreamSids : TwilioStart(sid)
    \/ TwilioMark
    \/ TwilioClose
    \/ WsOpen
    \/ WsPeerClose
    \/ WsCloseHandshake
    \/ \E hasDelta \in BOOLEAN, item \in ItemIds \cup {NULL} : WsAudioDelta(hasDelta, item)
    \/ WsSpeechStarted

BridgeSpec == Init /\ [][BridgeNext]_vars

\* A media frame of a transport whose timestamps do not decrease between
\* one start event and the next.
TwilioMediaOrdered(ts) ==
    /\ ts >= latestMediaTimestamp
    /\ TwilioMedia(ts)

\* The audio bridge of one call on such a transport.
OrderedBridgeNext ==
    \/ \E ts \in MediaTimestamps : TwilioMediaOrdered(ts)
    \/ \E sid \in StreamSids : TwilioStart(sid)
    \/ TwilioMark
    \/ TwilioClose
    \/ WsOpen
    \/ WsPeerClose
    \/ WsCloseHandshake
    \/ \E hasDelta \in BOOLEAN, item \in ItemIds \cup {NULL} : WsAudioDelta(hasDelta, item)
    \/ WsSpeechStarted

OrderedBridgeSpec == Init /\ [][OrderedBridgeNext]_vars

\* A mark event of a transport that echoes the marks it was sent, each once,
\* oldest first (after playing the audio before the mark, or on a clear).
TwilioMarkEcho ==
    /\ marksInFlight.stale + marksInFlight.current > 0
    /\ TwilioMark

\* The audio bridge of one call on such a transport.
PlaybackNext ==
    \/ \E ts \in MediaTimestamps : TwilioMedia(ts)
    \/ \E sid \in StreamSids : TwilioStart(sid)
    \/ TwilioMarkEcho
    \/ TwilioClose
    \/ WsOpen
    \/ WsPeerClose
    \/ WsCloseHandshake
    \/ \E hasDelta \in BOOLEAN, item \in ItemIds \cup {NULL} : WsAudioDelta(hasDelta, item)
    \/ WsSpeechStarted

PlaybackSpec == Init /\ [][PlaybackNext]_vars

\* The socket library completes what it has begun: a connection attempt that
\* can succeed does, and a closing handshake ends.
BridgeFairSpec ==
    BridgeSpec /\ WF_vars(WsOpen) /\ WF_vars(WsCloseHandshake)

\* The tool calls of one bridge, with the two legs' lifecycle and no audio.
ToolNext ==
    \/ TwilioClose
    \/ WsOpen
    \/ WsPeerClose
    \/ WsCloseHandshake
    \/ \E respId \in ResponseIds, S \in SUBSET ToolCallIds :
          \E shape \in [S -> ToolCallShapes] : WsRequiresAction(respId, S, shape)
    \/ \E id \in ToolCallIds, outcome \in BookingApiOutcomes : ToolCallReturn(id, outcome)

ToolSpec == Init /\ [][ToolNext]_vars

\* Every booking API call that was started ends.
ToolFairSpec ==
    ToolSpec /\ \A id \in ToolCallIds :
                   WF_vars(\E outcome \in BookingApiOutcomes : ToolCallReturn(id, outcome))

\* The functions of the session store called in any order on two calls, at
\* any of the instants.
StoreNext ==
    \/ \E c \in StoreIds \cup FalsyCallSids : StoreGet(c)
    \/ \E c \in StoreIds \cup FalsyCallSids, patch \in Patches : StoreUpsert(c, patch)
    \/ \E c \in StoreIds \cup FalsyCallSids : StoreClear(c)
    \/ \E t \in Instants : Elapse(t)

StoreSpec == Init /\ [][StoreNext]_vars

\* Two calls whose turns come one at a time, with the clock: a turn of
\* either call, an extraction that names no slot or every slot or is null, a
\* free slot, a booking that succeeds or fails, and time passing.
CallsInit ==
    /\ calls = EmptyObject
    /\ now = 0
    /\ req = [r \in Reqs |-> IdleReq]
    /\ justBooked = {}
    /\ callTurnIndices = [c \in StoreIds |-> 0]
    /\ telemetry = [r \in Reqs |-> <<>>]
    /\ turnIndexLog = [c \in StoreIds |-> <<>>]
    /\ storeCall = NoStoreCall
    /\ BridgeInit
    /\ PostInit

CallsNext ==
    \/ \E c \in StoreIds : TurnBegin(SeqReq, "present", "text", c)
    \/ ProfileReturn(SeqReq, "loaded")
    \/ \E outcome \in {"object", "null_result"}, fields \in {NoFields, FullFields} :
          NluReturn(SeqReq, outcome, "book", fields)
    \/ CheckReturn(SeqReq, "obj_available")
    \/ \E outcome \in {"obj_ok", "obj_fail"} : BookReturn(SeqReq, outcome)
    \/ \E t \in Instants : Elapse(t)

CallsSpec == CallsInit /\ [][CallsNext]_vars

\* Two requests for one call that may overlap (the upstream retries, or
\* delivers the next turn early): each is in one of two slots, and the
\* extraction of each names the service, the date, or nothing.
OverlapReqs == {"r1", "r2"}
OverlapFields ==
    {NoFields} \cup {[NoFields EXCEPT ![f] = "v1"] : f \in {"service", "date"}}

OverlapInit ==
    /\ calls = EmptyObject
    /\ now = 0
    /\ req = [r \in OverlapReqs |-> IdleReq]
    /\ justBooked = {}
    /\ callTurnIndices = [c \in CallIds |-> 0]
    /\ telemetry = [r \in OverlapReqs |-> <<>>]
    /\ turnIndexLog = [c \in CallIds |-> <<>>]
    /\ storeCall = NoStoreCall
    /\ BridgeInit
    /\ PostInit

OverlapNext ==
    \/ \E r \in OverlapReqs, c \in CallIds : TurnBegin(r, "present", "text", c)
    \/ \E r \in OverlapReqs : ProfileReturn(r, "loaded")
    \/ \E r \in OverlapReqs, fields \in OverlapFields :
          NluReturn(r, "object", "other", fields)

OverlapSpec == OverlapInit /\ [][OverlapNext]_vars

\* Two requests for one call, one after the other or overlapping, each
\* extracting nothing or every slot, with the tools answering yes or no.
RaceNext ==
    \/ \E r \in OverlapReqs, c \in CallIds : TurnBegin(r, "present", "text", c)
    \/ \E r \in OverlapReqs : ProfileReturn(r, "loaded")
    \/ \E r \in OverlapReqs, fields \in {NoFields, FullFields} :
          NluReturn(r, "object", "book", fields)
    \/ \E r \in OverlapReqs, outcome \in {"obj_available", "obj_unavailable"} :
          CheckReturn(r, outcome)
    \/ \E r \in OverlapReqs, outcome \in {"obj_ok", "obj_fail"} :
          BookReturn(r, outcome)

RaceSpec == OverlapInit /\ [][RaceNext]_vars

\* Calls of bestEffortPost, one at a time.
PostNext ==
    \/ \E retryCount \in RetryCountOptions : PostCall(retryCount)
    \/ \E outcome \in AttemptOutcomes : PostAttemptReturn(outcome)

PostSpec == Init /\ [][PostNext]_vars

\* Every fetch ends: the abort timer ends one that gets no answer.
PostFairSpec ==
    PostSpec /\ WF_vars(\E outcome \in AttemptOutcomes : PostAttemptReturn(outcome))

Next ==
    \/ TurnNext \/ FaultNext \/ TelemetryNext \/ Tick \/ BridgeNext \/ ToolNext
    \/ PostNext \/ StoreNext \/ CallsNext \/ OverlapNext \/ TimezoneNext
    \/ RaceNext \/ OrderedBridgeNext \/ PlaybackNext

Spec == Init /\ [][Next]_vars

(***************************************************************************)
(* Properties of the text-turn path (checked under TurnSpec)               *)
(***************************************************************************)
\* A request whose merge is done.
Merged(r) == req[r].pc \in {"check", "book", "done"} /\ req[r].status # "400"

\* A slot holds something: neither null nor the empty string.
Present(v) == v # NULL /\ v # EMPTY

\* Every slot a booking needs is present in session n.
AllSlotsPresent(n) ==
    /\ Present(n["service"]) /\ Present(n["date"]) /\ Present(n["time"])
    /\ Present(n["name"])
    /\ (Present(n["email"]) \/ Present(n["phone"]))

\* C1: over turns that do not overlap, with no clear and no TTL expiry in
\* between, a stored slot that is non-null is never null afterwards; and the
\* merge of a turn leaves a slot whose extracted value is null at its stored
\* value (null if there was no session) and replaces it by a non-null
\* extracted value.
C1_LastKnownGood ==
    [][\A c \in CallIds :
        /\ (c \in DOMAIN calls /\ c \in DOMAIN calls') =>
              \A f \in SlotNames :
                  calls[c].state[f] # NULL => calls'[c].state[f] # NULL
        /\ \A r \in Reqs :
              (req[r].pc = "nlu" /\ req'[r].pc # "nlu" /\ req[r].callSid = c) =>
                  /\ c \in DOMAIN calls'
                  /\ \A f \in SlotNames :
                        calls'[c].state[f] =
                            IF req'[r].extracted[f] # NULL
                            THEN req'[r].extracted[f]
                            ELSE IF c \in DOMAIN calls THEN calls[c].state[f]
                                 ELSE NULL
      ]_vars

\* C1 witness: a turn extracted a date and no service, and the stored service
\* is still there.
C1_Witness ==
    \E r \in Reqs :
        /\ req[r].pc = "done" /\ req[r].callSid \in DOMAIN calls
        /\ req[r].extracted["service"] = NULL
        /\ req[r].extracted["date"] = EMPTY
        /\ calls[req[r].callSid].state["service"] = "v1"
        /\ calls[req[r].callSid].state["date"] = EMPTY

\* C2: book_appointment is invoked in a turn only after check_availability was
\* invoked in that turn and answered with an object reporting available: true.
C2_BookOnlyAfterAvailable ==
    \A r \in Reqs :
        req[r].nBook > 0 =>
            /\ req[r].nCheck > 0
            /\ req[r].checkOutcome = "obj_available"

\* C2 witness: a booking was attempted.
C2_Witness == \E r \in Reqs : req[r].nBook > 0 /\ req[r].pc = "book"

\* C3: once a turn's book_appointment returned ok: true the session is gone
\* when the turn responds, getCallState finds nothing, and the next turn of the
\* call reads the all-null default session.
C3_ClearedOnBookingSuccess ==
    /\ \A r \in Reqs :
          (req[r].pc = "done" /\ req[r].bookOutcome = "obj_ok") =>
              req[r].callSid \in justBooked
    /\ \A c \in justBooked :
          /\ c \notin DOMAIN calls
          /\ \A r \in Reqs :
                (req[r].pc = "nlu" /\ req[r].callSid = c) =>
                    \A f \in SlotNames : req[r].state[f] = NULL

\* C3 witness: the turn after a successful booking has read its session.
C3_Witness ==
    \E r \in Reqs :
        /\ req[r].pc = "nlu" /\ req[r].callSid \in justBooked
        /\ \A f \in SlotNames : req[r].state[f] = NULL

\* C4: when the slot is available and the booking fails (ok: false, a
\* non-object result or a thrown error) the stored session is the merged one,
\* nothing is cleared, and the reply is the retry apology.
C4_BookingFailureKeepsSlots ==
    \A r \in Reqs :
        (req[r].pc = "done" /\ req[r].nBook > 0 /\ req[r].bookOutcome # "obj_ok") =>
            /\ req[r].callSid \in DOMAIN calls
            /\ calls[req[r].callSid].state = req[r].next
            /\ req[r].reply.kind = "retry"
            /\ req[r].status = "200"

\* C4 witness: a booking attempt threw.
C4_Witness ==
    \E r \in Reqs :
        /\ req[r].pc = "done" /\ req[r].bookOutcome = "fetch_throws"
        /\ req[r].callSid \in DOMAIN calls

\* C5: when check_availability answers with anything but an object reporting
\* available, the reply is the 'not available' apology citing the error
\* message if there is one, book_appointment is not invoked and the stored
\* session is the merged one.
C5_UnavailableKeepsSlots ==
    \A r \in Reqs :
        (req[r].pc = "done" /\ req[r].nCheck > 0
                /\ req[r].checkOutcome # "obj_available") =>
            /\ req[r].reply.kind = "unavailable"
            /\ req[r].checkOutcome = "obj_unavailable" => req[r].reply.cite = NULL
            /\ req[r].checkOutcome = "obj_unavailable_err" =>
                  req[r].reply.cite = "slot taken"
            /\ req[r].checkOutcome \notin {"obj_unavailable", "obj_unavailable_err"} =>
                  Present(req[r].reply.cite)
            /\ req[r].nBook = 0
            /\ req[r].callSid \in DOMAIN calls
            /\ calls[req[r].callSid].state = req[r].next

\* C5 witness: the availability API answered with a non-object.
C5_Witness ==
    \E r \in Reqs :
        /\ req[r].pc = "done" /\ req[r].checkOutcome = "json_nonobject"
        /\ req[r].reply.kind = "unavailable"

\* C6: the branch a turn takes is the first rule of the cascade that holds of
\* (intent, presence of the merged slots), so exactly one branch is taken.
C6_PriorityCascade ==
    \A r \in Reqs :
        (Merged(r) /\ req[r].nextDefined) =>
            LET n == req[r].next
                ask == req[r].intent = "ask_services"
                noService == ~Present(n["service"])
                noDateTime == ~Present(n["date"]) \/ ~Present(n["time"])
                noContact == ~Present(n["name"])
                                \/ (~Present(n["email"]) /\ ~Present(n["phone"]))
            IN
            /\ req[r].branch = "list_services" <=> ask
            /\ req[r].branch = "offer_services" <=> (~ask /\ noService)
            /\ req[r].branch = "ask_datetime" <=>
                  (~ask /\ ~noService /\ noDateTime)
            /\ req[r].branch = "ask_contact" <=>
                  (~ask /\ ~noService /\ ~noDateTime /\ noContact)
            /\ req[r].branch = "tools" <=>
                  (~ask /\ ~noService /\ ~noDateTime /\ ~noContact)
            /\ (req[r].pc = "done" /\ req[r].branch # "tools") =>
                  req[r].reply.kind = req[r].branch

\* C6 witness: name and phone are there and no email: the tool branch.
C6_Witness ==
    \E r \in Reqs :
        /\ Merged(r) /\ req[r].nextDefined /\ req[r].branch = "tools"
        /\ ~Present(req[r].next["email"]) /\ Present(req[r].next["phone"])

\* C7: check_availability is invoked in a turn if and only if the intent is
\* not ask_services and after the merge service, date, time, name and one of
\* email and phone are present; an ask_services turn invokes no tool; no turn
\* invokes either tool twice.
C7_ToolsOnlyWhenComplete ==
    \A r \in Reqs :
        /\ req[r].nCheck <= 1 /\ req[r].nBook <= 1
        /\ Merged(r) =>
              /\ req[r].nCheck > 0 <=>
                    /\ req[r].intent # "ask_services"
                    /\ req[r].nextDefined
                    /\ AllSlotsPresent(req[r].next)
              /\ req[r].intent = "ask_services" =>
                    (req[r].nCheck = 0 /\ req[r].nBook = 0)

\* C7 witness: an ask_services turn on a session with every slot filled.
C7_Witness ==
    \E r \in Reqs :
        /\ req[r].pc = "done" /\ req[r].intent = "ask_services"
        /\ req[r].nextDefined /\ AllSlotsPresent(req[r].next)
        /\ req[r].nCheck = 0

(***************************************************************************)
(* Properties of the audio bridge (checked under BridgeSpec)               *)
(***************************************************************************)
\* The step handles a speech-started event that finds an utterance playing,
\* with both legs open.
BargeInStep ==
    /\ lastEvent' = "speech_started"
    /\ twilioState = "open" /\ wsState = "OPEN"
    /\ markQueue # <<>>
    /\ responseStartTimestampTwilio # NoTimestamp

\* What a barge-in does to the transport and to the bridge state.
BargeInClearsAndResets ==
    /\ outTwilio' = <<[event |-> "clear", streamSid |-> streamSid]>>
    /\ markQueue' = <<>>
    /\ lastAssistantItem' = NULL
    /\ responseStartTimestampTwilio' = NoTimestamp
    /\ UNCHANGED <<streamSid, latestMediaTimestamp>>

\* The truncate instruction of a barge-in.
BargeInTruncate ==
    [type |-> "conversation.item.truncate", item_id |-> lastAssistantItem,
     audio_end_ms |-> latestMediaTimestamp - responseStartTimestampTwilio]

\* C8 as claimed: a barge-in always sends exactly one truncate for
\* lastAssistantItemId with audio_end_ms = latest - start, exactly one clear for
\* the stream, and resets the queue, the item and the start timestamp.
C8_BargeInAlwaysTruncates ==
    [][BargeInStep => (outModel' = <<BargeInTruncate>> /\ BargeInClearsAndResets)]_vars

\* C8 amended: the truncate is sent when lastAssistantItemId is set, and no
\* truncate is sent when it is absent; the clear and the reset happen in both
\* cases.
C8_BargeIn ==
    [][BargeInStep =>
          /\ outModel' = IF lastAssistantItem # NULL THEN <<BargeInTruncate>> ELSE <<>>
          /\ BargeInClearsAndResets
      ]_vars

\* C8 witness: start = 1000, latest = 1450: a truncate at 450 ms and a clear.
C8_Witness ==
    /\ lastEvent = "speech_started"
    /\ latestMediaTimestamp = 1450
    /\ outModel = <<[type |-> "conversation.item.truncate", item_id |-> "item_1",
                     audio_end_ms |-> 450]>>
    /\ outTwilio = <<[event |-> "clear", streamSid |-> "MZ1"]>>
    /\ markQueue = <<>>
    /\ lastAssistantItem = NULL
    /\ responseStartTimestampTwilio = NoTimestamp

\* C9: a speech-started event that finds the queue empty or the start
\* timestamp absent sends nothing on either leg and changes no field of the
\* bridge state.
C9_SpeechStartedNoOp ==
    [][(/\ lastEvent' = "speech_started"
        /\ (markQueue = <<>> \/ responseStartTimestampTwilio = NoTimestamp)) =>
          /\ outModel' = <<>>
          /\ outTwilio' = <<>>
          /\ UNCHANGED <<streamSid, latestMediaTimestamp, lastAssistantItem,
                         markQueue, responseStartTimestampTwilio>>
      ]_vars

\* C9 witness: a speech-started event was handled with the start timestamp set
\* and the queue empty, and the start timestamp is still set.
C9_Witness ==
    /\ lastEvent = "speech_started"
    /\ twilioState = "open" /\ wsState = "OPEN"
    /\ markQueue = <<>>
    /\ responseStartTimestampTwilio = 1000
    /\ lastAssistantItem = "item_1"

\* C10 as claimed: once the transport connection has closed, the model socket
\* is eventually closed, whatever its state was.
C10_TransportCloseClosesModel ==
    (twilioState = "closed") ~> (wsState = "CLOSED")

\* C11 as claimed: once the model socket has closed (or failed), the
\* transport connection is eventually closed.
C11_ModelCloseClosesTransport ==
    (wsState = "CLOSED") ~> (twilioState = "closed")

\* The bridge is Closed: the close event of one of its legs has occurred.
BridgeClosed == twilioState = "closed" \/ wsState = "CLOSED"

InboundEvents ==
    {"media", "start", "mark", "audio_delta", "speech_started", "requires_action"}

\* C12 as claimed: an inbound event handled after the bridge is Closed sends
\* no frame on either leg and changes no field of the audio session state.
C12_NoEffectAfterClosed ==
    [][(BridgeClosed /\ lastEvent' \in InboundEvents) =>
          /\ outModel' = <<>>
          /\ outTwilio' = <<>>
          /\ UNCHANGED audioVars
      ]_vars

(***************************************************************************)
(* Properties of the tool calls (checked under ToolSpec, ToolFairSpec)     *)
(***************************************************************************)
\* The submit frames of out that answer tool call id.
SubmitsFor(out, id) ==
    SelectSeq(out, LAMBDA f : f.type = "response.submit_tool_outputs"
                              /\ f.tool_call_id = id)

\* The output a tool call is to be answered with.
ExpectedOutput(outcome) ==
    IF outcome = "api_ok" THEN "result_ok"
    ELSE IF outcome = "api_error" THEN "result_error"
    ELSE "error"

\* C13 as claimed: a book_appointment tool call received on an open model
\* socket has, once its handling has ended, had exactly one submit delivered.
C13_EveryToolCallSubmittedOnce ==
    \A id \in ToolCallIds :
        (toolCalls[id].status = "done" /\ toolCalls[id].openAtCall) =>
            toolCalls[id].delivered = 1

\* C13, amended: the handling of every book_appointment tool call received on
\* an open model socket ends; when it ends with the socket still open, exactly
\* one submit is sent, carrying the event's response id, the tool call's id,
\* and the API's answer or, for a throw, the error-shaped output; when the
\* socket is no longer open, no submit is sent.
C13_ToolOutputSubmitted ==
    /\ [][\A id \in ToolCallIds :
            (toolCalls[id].status # "done" /\ toolCalls'[id].status = "done"
             /\ toolCalls'[id].openAtCall) =>
               IF wsState = "OPEN"
               THEN /\ SubmitsFor(outModel', id) =
                          <<[type |-> "response.submit_tool_outputs",
                             response_id |-> toolCalls'[id].responseId,
                             tool_call_id |-> id,
                             output |-> ExpectedOutput(toolCalls'[id].outcome)]>>
                    /\ toolCalls'[id].delivered = 1
               ELSE /\ SubmitsFor(outModel', id) = <<>>
                    /\ toolCalls'[id].delivered = 0
        ]_vars
    /\ \A id \in ToolCallIds :
          (toolCalls[id].status = "pending") ~> (toolCalls[id].status = "done")

\* C13 witness: the booking API call of a tool call threw while the socket
\* was open, and the error-shaped output was submitted for it.
C13_Witness ==
    /\ lastEvent = "tool_result"
    /\ wsState = "OPEN"
    /\ toolCalls["call_1"] = [status |-> "done", responseId |-> "resp_2",
                              openAtCall |-> TRUE, transportAtCall |-> TRUE,
                              outcome |-> "fetch_throws", delivered |-> 1]
    /\ outModel = <<[type |-> "response.submit_tool_outputs", response_id |-> "resp_2",
                     tool_call_id |-> "call_1", output |-> "error"]>>

(***************************************************************************)
(* Properties of bestEffortPost (checked under PostSpec, PostFairSpec)     *)
(***************************************************************************)
\* C14: a call of bestEffortPost issues at most two fetches, and returns.
C14_AtMostTwoAttempts ==
    /\ [](post.attempts <= 2 /\ Len(post.log) <= 2)
    /\ (post.pc = "attempt") ~> (post.pc = "returned")

\* C14 witness: a call returned after two attempts that both failed in a way
\* that is retried.
C14_Witness ==
    /\ post.pc = "returned"
    /\ post.given = NoRetryCount
    /\ post.attempts = 2
    /\ post.log = <<"abort", "network_error">>
    /\ post.value = "null"

Non2xxOutcomes ==
    {"http_text_fails", "http_plain", "http_body_timeout", "http_body_network"}

\* C15 as claimed: a second attempt is made only after a timeout or a
\* network-class failure; a first attempt that ends in a non-2xx response is
\* the last, and the call returns null.
C15_NoRetryAfterHttpError ==
    /\ post.attempts = 2 => post.log[1] \in {"abort", "network_error", "fetch_failed"}
    /\ (Len(post.log) >= 1 /\ post.log[1] \in Non2xxOutcomes) =>
          post.pc = "returned" /\ post.attempts = 1 /\ post.value = "null"

\* C16: bestEffortPost returns the parsed response, an empty object or null,
\* whatever the outcomes of its attempts; it has no other way to end.
C16_NeverFailsCaller ==
    /\ post.pc \in {"idle", "attempt", "returned"}
    /\ post.pc = "returned" <=> post.value \in {"parsed", "empty_object", "null"}
    /\ post.pc = "returned" =>
          post.value = (IF post.log[Len(post.log)] = "ok_json" THEN "parsed"
                        ELSE IF post.log[Len(post.log)] = "ok_bad_json" THEN "empty_object"
                        ELSE "null")

\* C16 witness: a retried call whose second answer was a 2xx response with a
\* body that is not JSON returned the empty object.
C16_Witness ==
    /\ post.pc = "returned"
    /\ post.log = <<"abort", "ok_bad_json">>
    /\ post.value = "empty_object"

(***************************************************************************)
(* Properties of the turn's telemetry and faults (checked under            *)
(* TelemetrySpec, TelemetryFairSpec and FaultSpec)                         *)
(***************************************************************************)
\* A step of the telemetry sink: an emission in flight of request r ends.
SinkStep(r) ==
    \E i \in 1..Len(telemetry[r]) :
        /\ Len(telemetry'[r]) = Len(telemetry[r])
        /\ telemetry[r][i].status = "pending"
        /\ telemetry'[r][i].status # "pending"

\* C17: whatever the telemetry sink does with an emission, and whenever, the
\* step changes nothing the turn reads or answers with (the session store,
\* the turn counters, the request's locals, status and reply, the tool calls
\* made); and every turn in progress gets its response even if the sink
\* never answers any emission.
C17_TelemetryDoesNotInterfere ==
    /\ [][\A r \in Reqs :
            SinkStep(r) => UNCHANGED <<calls, req, callTurnIndices, justBooked, now>>
        ]_vars
    /\ \A r \in Reqs :
          (req[r].pc \in {"profile", "nlu", "check", "book"}) ~> (req[r].pc = "done")

\* C17 witness: a turn has booked and answered while all five of its
\* emissions are still in flight.
C17_Witness ==
    /\ req["r1"].pc = "done" /\ req["r1"].status = "200"
    /\ req["r1"].reply.kind = "booked"
    /\ req["r1"].nCheck = 1 /\ req["r1"].nBook = 1
    /\ Len(telemetry["r1"]) = 5
    /\ \A i \in 1..5 : telemetry["r1"][i].status = "pending"

\* The request has no businessId, or no non-empty user text.
LacksMandatoryInput(q) ==
    \/ q.business \in {"absent", "no_body"}
    \/ q.text \in {"absent", "null_message"}

\* C18 as claimed: a request without businessId or without non-empty user
\* text is answered with the validation failure, and handling it leaves the
\* session store and the turn counters unchanged, emits no telemetry and
\* makes no upstream call.
C18_InvalidRequestRejected ==
    [][\A r \in Reqs :
         (req[r].pc \in {"idle", "done"} /\ req'[r] # req[r]
          /\ LacksMandatoryInput(req'[r])) =>
            /\ req'[r].pc = "done"
            /\ req'[r].status = "400"
            /\ req'[r].reply.kind = "validation"
            /\ req'[r].nCheck = 0 /\ req'[r].nBook = 0
            /\ telemetry'[r] = <<>>
            /\ UNCHANGED <<calls, callTurnIndices>>
      ]_vars

\* The exceptions of the turn pipeline: thrown while the request is read,
\* on an extraction that is null, and on the merge result of a request
\* without callSid.
Throws(q) ==
    \/ q.business = "no_body"
    \/ q.business = "present" /\ q.text \in {"null_message", "not_string"}
    \/ q.nlu = "null_result"
    \/ q.nlu \in {"object", "failed"} /\ ~Present(q.callSid) /\ q.intent # "ask_services"

\* The error transcripts among the emissions tel.
ErrorTranscripts(tel) == SelectSeq(tel, LAMBDA e : e.kind = "error_transcript")

\* C19: a turn in which an exception is thrown ends at once with status 500,
\* ok:false and the fixed apology, with exactly one error transcript emitted,
\* as the turn's last emission, when the request names a call and none when
\* it does not; and no turn ends in any other way than with a response.
C19_FaultsCaught ==
    \A r \in Reqs :
        /\ req[r].pc \in {"idle", "profile", "nlu", "check", "book", "done"}
        /\ req[r].pc = "done" => req[r].status \in {"200", "400", "500"}
        /\ Throws(req[r]) <=> req[r].status = "500"
        /\ req[r].status = "500" =>
              /\ req[r].pc = "done"
              /\ req[r].reply = [kind |-> "error_apology", cite |-> NULL]
              /\ IF Present(req[r].callSid)
                 THEN /\ Len(ErrorTranscripts(telemetry[r])) = 1
                      /\ telemetry[r][Len(telemetry[r])].kind = "error_transcript"
                 ELSE ErrorTranscripts(telemetry[r]) = <<>>

\* C19 witness: the extraction of a turn of call CA1 was null; the turn was
\* answered with the apology and an error transcript follows its caller
\* transcript.
C19_Witness ==
    /\ req["r1"].pc = "done" /\ req["r1"].status = "500"
    /\ req["r1"].callSid = "CA1" /\ req["r1"].fault = "null_extraction"
    /\ req["r1"].reply.kind = "error_apology"
    /\ Len(telemetry["r1"]) = 2
    /\ telemetry["r1"][1].kind = "caller_transcript"
    /\ telemetry["r1"][2].kind = "error_transcript"

\* C20 as claimed: a turn with businessId, non-empty text and a call
\* identifier ends with ok:true and a reply, however its profile load, its
\* extraction and its tool calls ended.
C20_DegradationAbsorbed ==
    \A r \in Reqs :
        (/\ req[r].pc = "done"
         /\ req[r].business = "present"
         /\ req[r].text \in {"text", "last_message"}
         /\ Present(req[r].callSid)) =>
            /\ req[r].status = "200"
            /\ req[r].reply.kind \notin {"none", "validation", "error_apology"}

(***************************************************************************)
(* Properties of the session store (checked under StoreSpec)               *)
(***************************************************************************)
\* The step is a direct call of the store function op for callSid c.
StoreStep(op, c) ==
    /\ now' = now
    /\ storeCall'.op = op
    /\ storeCall'.callSid = c

\* C21: getCallState for a call whose entry was last written by
\* upsertCallState more than 30 minutes ago returns null and deletes the
\* entry; up to 30 minutes it returns the stored session and leaves the entry
\* and its time as they are; only upsertCallState sets an entry's time, to the
\* time of the call; and the passing of time alone removes nothing.
C21_ExpiryOnRead ==
    [][\A c \in StoreIds :
        /\ (StoreStep("getCallState", c) /\ c \in DOMAIN calls) =>
               IF now - calls[c].updatedAt > 30 * 60 * 1000
               THEN /\ storeCall'.returned.kind = "null"
                    /\ c \notin DOMAIN calls'
               ELSE /\ storeCall'.returned = Returned("session", calls[c].state)
                    /\ c \in DOMAIN calls'
                    /\ calls'[c] = calls[c]
        /\ StoreStep("upsertCallState", c) =>
               (c \in DOMAIN calls' /\ calls'[c].updatedAt = now)
        /\ (c \in DOMAIN calls /\ c \in DOMAIN calls'
               /\ calls'[c].updatedAt # calls[c].updatedAt) =>
               StoreStep("upsertCallState", c)
        /\ now' # now => calls' = calls
      ]_vars

\* C21 witness: a read found an entry in the map, returned null for it and
\* removed it, while the entry of the other call, as old, is still there.
C21_Witness ==
    /\ storeCall.op = "getCallState" /\ storeCall.callSid = "CA1"
    /\ storeCall.found /\ storeCall.returned.kind = "null"
    /\ "CA1" \notin DOMAIN calls
    /\ "CA2" \in DOMAIN calls /\ now - calls["CA2"].updatedAt > TTL_MS

\* C23: a getCallState, upsertCallState or clearCallState for one call
\* identifier, wherever it falls among the operations on another, leaves the
\* other's entry as it is: present or not, with the same session and the same
\* last-mutation time.
C23_CrossKeyIndependence ==
    [][\A a \in StoreIds \cup FalsyCallSids, b \in StoreIds :
        (a # b /\ \E op \in {"getCallState", "upsertCallState", "clearCallState"} :
                     StoreStep(op, a)) =>
            /\ (b \in DOMAIN calls') = (b \in DOMAIN calls)
            /\ b \in DOMAIN calls => calls'[b] = calls[b]
      ]_vars

\* C23 witness: one call's entry was just cleared while the other call has a
\* session with a service in it.
C23_Witness ==
    /\ storeCall.op = "clearCallState" /\ storeCall.callSid = "CA1"
    /\ storeCall.found
    /\ "CA2" \in DOMAIN calls
    /\ "service" \in DOMAIN calls["CA2"].state
    /\ calls["CA2"].state["service"] = "v1"

\* Field f of the session stored for c in the map cs: null where there is no
\* entry or the session has no such field.
StoredField(cs, c, f) ==
    IF c \in DOMAIN cs /\ f \in DOMAIN cs[c].state THEN cs[c].state[f] ELSE NULL

\* C25: upsertCallState is null-safe field by field: a patch field that is
\* null or absent leaves the stored field at its previous value and a non-null
\* one replaces it; the entry exists afterwards, its last-mutation time is the
\* time of the call, and the session stored is the one returned.
C25_UpsertNullSafe ==
    [][\A c \in StoreIds :
        StoreStep("upsertCallState", c) =>
            /\ c \in DOMAIN calls'
            /\ calls'[c].updatedAt = now
            /\ storeCall'.returned = Returned("session", calls'[c].state)
            /\ \A f \in PatchFields :
                  StoredField(calls', c, f) =
                      IF f \in DOMAIN storeCall'.patch /\ storeCall'.patch[f] # NULL
                      THEN storeCall'.patch[f]
                      ELSE StoredField(calls, c, f)
      ]_vars

(***************************************************************************)
(* Properties of the turn counter (checked under CallsSpec)                *)
(***************************************************************************)
\* C22: for each call identifier the first value getTurnIndex returns is 0
\* and every later one is larger than all before it; a call of getTurnIndex
\* for one identifier leaves the counter of every other identifier alone; and
\* no step, a clear or an expiry of the session included, lowers a counter.
C22_TurnIndexPerCall ==
    /\ [](\A c \in DOMAIN turnIndexLog :
            /\ Len(turnIndexLog[c]) > 0 => turnIndexLog[c][1] = 0
            /\ \A i, j \in 1..Len(turnIndexLog[c]) :
                  i < j => turnIndexLog[c][i] < turnIndexLog[c][j])
    /\ [][\A c \in DOMAIN turnIndexLog :
            /\ turnIndexLog'[c] # turnIndexLog[c] =>
                  \A d \in DOMAIN turnIndexLog \ {c} :
                      /\ callTurnIndices'[d] = callTurnIndices[d]
                      /\ turnIndexLog'[d] = turnIndexLog[d]
            /\ callTurnIndices'[c] >= callTurnIndices[c]
          ]_vars

\* C22 witness: a call whose session a booking cleared is in its next turn
\* with a larger index, more than the TTL after the start; the other call,
\* whose stored session is older than the TTL, has had one turn, with index 0.
C22_Witness ==
    /\ "CA1" \in justBooked
    /\ req[SeqReq].callSid = "CA1" /\ req[SeqReq].pc = "nlu"
    /\ req[SeqReq].turnIndex = Len(turnIndexLog["CA1"]) - 1
    /\ req[SeqReq].turnIndex >= 1
    /\ turnIndexLog["CA2"] = <<0>>
    /\ "CA2" \in DOMAIN calls /\ now - calls["CA2"].updatedAt > TTL_MS

(***************************************************************************)
(* Properties of overlapping turns (checked under OverlapSpec)             *)
(***************************************************************************)
\* C24: the merge of a turn stores, for each slot, the turn's extracted value
\* or else the value the turn read before its extraction, whatever the store
\* holds at the time of the merge; so when two turns of a call overlap, a
\* value merged by one of them in between is overwritten by the older (or
\* null) value the other had read.
C24_MergeWritesStaleRead ==
    [][\A r \in DOMAIN req :
        (req[r].pc = "nlu" /\ req'[r].pc # "nlu" /\ Truthy(req[r].callSid)) =>
            /\ req[r].callSid \in DOMAIN calls'
            /\ \A f \in SlotNames :
                  calls'[req[r].callSid].state[f] =
                      IF req'[r].extracted[f] # NULL
                      THEN req'[r].extracted[f]
                      ELSE req[r].state[f]
      ]_vars

\* C24 witness: the first two turns of a call have both responded; the first
\* extracted the service and merged it, the second extracted the date only,
\* and the stored service is null: the second turn's merge put back the null
\* it had read before the first turn's merge.
C24_Witness ==
    /\ req["r1"].pc = "done" /\ req["r1"].turnIndex = 0
    /\ req["r1"].extracted["service"] = "v1" /\ req["r1"].next["service"] = "v1"
    /\ req["r2"].pc = "done" /\ req["r2"].turnIndex = 1
    /\ req["r2"].extracted["service"] = NULL /\ req["r2"].extracted["date"] = "v1"
    /\ req["r2"].next["service"] = NULL
    /\ calls["CA1"].state["service"] = NULL
    /\ calls["CA1"].state["date"] = "v1"

(***************************************************************************)
(* Properties of the turn index (checked under FaultSpec)                  *)
(***************************************************************************)
\* The transcript events among a turn's emissions.
Transcripts(tel) ==
    SelectSeq(tel, LAMBDA e : e.kind \in {"caller_transcript", "agent_transcript",
                                          "error_transcript"})

\* C26: a turn that was not rejected by validation takes one turn index:
\* every transcript event it emits (caller, agent reply or error apology)
\* carries the same turnIndex, and when it has responded, with a reply or
\* with the apology, the call's counter is that index plus one.
C26_OneIndexPerTurn ==
    \A r \in Reqs :
        (Truthy(req[r].callSid) /\ req[r].pc # "idle" /\ req[r].status # "400") =>
            LET tr == Transcripts(telemetry[r]) IN
            /\ \A i \in 1..Len(tr) : tr[i].index = tr[1].index
            /\ req[r].pc = "done" =>
                  /\ Len(tr) > 0
                  /\ callTurnIndices[req[r].callSid] = tr[1].index + 1

(***************************************************************************)
(* Properties of the bridge's audio state (checked under BridgeSpec)       *)
(***************************************************************************)
\* C27: a start event binds streamSid to the stream identifier of the frame,
\* sets responseStartTimestampTwilio to null and latestMediaTimestamp to 0,
\* leaves the mark queue, the last assistant item and both connections as
\* they are, and sends nothing to the model or to the transport.
C27_StartFrame ==
    [][/\ \A sid \in StreamSids : TwilioStart(sid) => streamSid' = sid
       /\ lastEvent' = "start" =>
             /\ streamSid' \in StreamSids
             /\ responseStartTimestampTwilio' = NoTimestamp
             /\ latestMediaTimestamp' = 0
             /\ markQueue' = markQueue
             /\ lastAssistantItem' = lastAssistantItem
             /\ twilioState' = twilioState /\ wsState' = wsState
             /\ toolCalls' = toolCalls
             /\ outModel' = <<>> /\ outTwilio' = <<>>
      ]_vars

\* C27 witness: a start event arrived in mid-utterance and rebound the stream:
\* the marks and the assistant item are still there, the timestamps are reset.
C27_Witness ==
    /\ lastEvent = "start" /\ streamSid = "MZ2"
    /\ Len(markQueue) > 0 /\ lastAssistantItem = "item_1"
    /\ responseStartTimestampTwilio = NoTimestamp
    /\ latestMediaTimestamp = 0

\* C28: latestMediaTimestamp never decreases, whatever the transport sends.
C28_MediaTimestampMonotonic ==
    [][latestMediaTimestamp' >= latestMediaTimestamp]_vars

\* C29: an audio delta with a payload that finds responseStartTimestampTwilio
\* null sets it to latestMediaTimestamp; an audio delta that finds it set, to
\* 0 or to any other value, leaves it; and it goes back to null only by a
\* barge-in or a start event.
C29_ResponseStartMarksUtterance ==
    [][/\ \A item \in ItemIds \cup {NULL} :
             (WsAudioDelta(TRUE, item) /\ responseStartTimestampTwilio = NoTimestamp) =>
                 responseStartTimestampTwilio' = latestMediaTimestamp
       /\ (lastEvent' = "audio_delta" /\ responseStartTimestampTwilio # NoTimestamp) =>
             responseStartTimestampTwilio' = responseStartTimestampTwilio
       /\ (responseStartTimestampTwilio # NoTimestamp
              /\ responseStartTimestampTwilio' = NoTimestamp) =>
             lastEvent' \in {"speech_started", "start"}
      ]_vars

\* The mark frames among the frames sent to the transport.
Marks(frames) == SelectSeq(frames, LAMBDA fr : fr.event = "mark")

\* C30 as stated: before the bridge is closed every audio delta with a
\* payload, whether or not a start event has bound streamSid, relays one media
\* frame and then sends one mark and enqueues one token.
C30_DeltaAlwaysMarks ==
    [][\A item \in ItemIds \cup {NULL} :
          (WsAudioDelta(TRUE, item) /\ ~BridgeClosed) =>
              /\ outTwilio' = <<TwilioFrame("media", streamSid),
                                TwilioFrame("mark", streamSid)>>
              /\ markQueue' = Append(markQueue, "responsePart")
      ]_vars

\* C30: before the bridge is closed an audio delta with a payload relays one
\* media frame; once a start event has bound streamSid it then sends one mark
\* and enqueues one token, and before that it sends no mark and enqueues
\* nothing; and every event sends as many marks as it enqueues tokens.
C30_DeltaMarksOnceBound ==
    [][/\ \A item \in ItemIds \cup {NULL} :
             (WsAudioDelta(TRUE, item) /\ ~BridgeClosed) =>
                 IF streamSid # NULL
                 THEN /\ outTwilio' = <<TwilioFrame("media", streamSid),
                                       TwilioFrame("mark", streamSid)>>
                      /\ markQueue' = Append(markQueue, "responsePart")
                 ELSE /\ outTwilio' = <<TwilioFrame("media", NULL)>>
                      /\ markQueue' = markQueue
       /\ ~BridgeClosed =>
             Len(Marks(outTwilio')) =
                 IF Len(markQueue') > Len(markQueue)
                 THEN Len(markQueue') - Len(markQueue)
                 ELSE 0
      ]_vars

\* C30 witness: the second audio delta of an utterance on a bound stream: a
\* media frame and then a mark were sent, and two tokens are outstanding.
C30_Witness ==
    /\ lastEvent = "audio_delta"
    /\ twilioState = "open"
    /\ outTwilio = <<TwilioFrame("media", "MZ1"), TwilioFrame("mark", "MZ1")>>
    /\ Len(markQueue) = 2

\* C31 as stated: every media frame received before the bridge is closed,
\* also while the model socket is connecting, sets latestMediaTimestamp to its
\* timestamp and delivers one append event to the model.
C31_MediaAlwaysForwarded ==
    [][\A ts \in MediaTimestamps :
          (TwilioMedia(ts) /\ ~BridgeClosed) =>
              /\ latestMediaTimestamp' = ts
              /\ outModel' = <<ModelFrame("input_audio_buffer.append", NULL, 0)>>
      ]_vars

\* C31: every media frame received before the bridge is closed sets
\* latestMediaTimestamp to its timestamp; received while the model socket is
\* open it delivers exactly one append event to the model, within the handling
\* of that frame (so appends keep the order of the frames), and received
\* while the model socket is connecting it delivers none.
C31_MediaForwardedWhenOpen ==
    [][\A ts \in MediaTimestamps :
          (TwilioMedia(ts) /\ ~BridgeClosed) =>
              /\ latestMediaTimestamp' = ts
              /\ outTwilio' = <<>>
              /\ outModel' =
                    IF wsState = "OPEN"
                    THEN <<ModelFrame("input_audio_buffer.append", NULL, 0)>>
                    ELSE <<>>
      ]_vars

\* C31 witness: a media frame with timestamp 1450 was forwarded to the open
\* model socket.
C31_Witness ==
    /\ lastEvent = "media" /\ wsState = "OPEN" /\ twilioState = "open"
    /\ latestMediaTimestamp = 1450
    /\ outModel = <<ModelFrame("input_audio_buffer.append", NULL, 0)>>

(***************************************************************************)
(* Properties of late tool results (checked under ToolSpec)                *)
(***************************************************************************)
\* C32: when the booking request of a tool call that arrived with both
\* connections open ends after the bridge has closed, the handling of the tool call completes, no submit-tool-outputs
\* message is delivered to the model, and the bridge's audio state, its two
\* connections and its other tool calls are as they were.
C32_LateToolResultDiscarded ==
    [][\A id \in ToolCallIds :
          (toolCalls[id].status = "pending" /\ toolCalls'[id].status # "pending"
             /\ toolCalls[id].openAtCall /\ toolCalls[id].transportAtCall
             /\ BridgeClosed) =>
              /\ toolCalls'[id].status = "done"
              /\ toolCalls'[id].delivered = 0
              /\ outModel' = <<>> /\ outTwilio' = <<>>
              /\ UNCHANGED <<streamSid, latestMediaTimestamp, lastAssistantItem,
                             markQueue, responseStartTimestampTwilio,
                             twilioState, wsState>>
              /\ \A other \in ToolCallIds \ {id} : toolCalls'[other] = toolCalls[other]
      ]_vars

\* C32 witness: a tool call that arrived on the open model socket got the
\* booking API's answer after the transport had closed; nothing was delivered.
C32_Witness ==
    \E id \in ToolCallIds :
        /\ toolCalls[id].status = "done"
        /\ toolCalls[id].openAtCall /\ toolCalls[id].transportAtCall
        /\ toolCalls[id].outcome = "api_ok" /\ toolCalls[id].delivered = 0
        /\ lastEvent = "tool_result" /\ twilioState = "closed"

\* C33 as claimed: a turn request with businessId and text but no call
\* identifier ends with ok:true and a reply of the cascade, whatever intent
\* was extracted and however the extraction ended.
C33_CallSidOptional ==
    \A r \in Reqs :
        (/\ req[r].pc = "done"
         /\ req[r].business = "present"
         /\ req[r].text = "text"
         /\ ~Present(req[r].callSid)) =>
            /\ req[r].status = "200"
            /\ req[r].reply.kind \notin {"none", "validation", "error_apology"}

(***************************************************************************)
(* Properties of the timezone resolution (checked under TimezoneSpec)      *)
(***************************************************************************)
\* The timezone of the extraction a turn merged, null when it named none.
TimezoneOf(fields) ==
    IF "timezone" \in DOMAIN fields THEN fields["timezone"] ELSE NULL

\* C34 as claimed: when a turn calls check_availability, the timezone it
\* passes is the one extracted in this turn if there is one; in the first
\* turn of a call with no timezone extracted it is the profile's timezone,
\* or 'America/Toronto' when the profile has none.
C34_TimezoneResolution ==
    [][\A r \in Reqs :
          (req[r].pc = "nlu" /\ req'[r].pc = "check") =>
              LET tz == TimezoneOf(req'[r].extracted)
                  profileTz == CASE req[r].profile = "loaded" -> BusinessTimezone
                                 [] req[r].profile = "load_failed" -> "America/Toronto"
                                 [] OTHER -> NULL
              IN
              /\ Present(tz) => req'[r].timezone = tz
              /\ (~Present(tz) /\ req[r].turnIndex = 0) =>
                     req'[r].timezone = IF Present(profileTz) THEN profileTz
                                        ELSE "America/Toronto"
      ]_vars

(***************************************************************************)
(* Properties of turns sharing a call (checked under RaceSpec)             *)
(***************************************************************************)
\* The tool events among the emissions of the turn in slot r, by position.
ToolEventsAt(r) ==
    {i \in 1..Len(telemetry[r]) :
        telemetry[r][i].kind \in {"tool_check_availability", "tool_book_appointment"}}

\* C35 as claimed: two distinct tool invocations, in one turn or in two turns
\* of a call, are never emitted with the same eventId.
C35_ToolEventIdsUnique ==
    \A r1 \in DOMAIN telemetry, r2 \in DOMAIN telemetry :
        \A i \in ToolEventsAt(r1), j \in ToolEventsAt(r2) :
            <<r1, i>> # <<r2, j>> =>
                ToolEventId(req[r1].callSid, telemetry[r1][i])
                    # ToolEventId(req[r2].callSid, telemetry[r2][j])

(***************************************************************************)
(* Further properties of the audio bridge (checked under BridgeSpec)       *)
(***************************************************************************)
\* C36 as claimed: every frame delivered to the transport (media, mark or
\* clear) carries a bound streamSid.
C36_OutboundFramesCarryStreamSid ==
    \A i \in 1..Len(outTwilio) :
        outTwilio[i].event \in {"media", "mark", "clear"} =>
            outTwilio[i].streamSid # NULL

\* C37: on a transport whose media timestamps do not decrease between start
\* events, a response never starts later than the latest media timestamp,
\* and every truncate instruction delivered to the model has an audio_end_ms
\* that is not negative.
C37_TruncateNonNegative ==
    /\ responseStartTimestampTwilio # NoTimestamp =>
            responseStartTimestampTwilio <= latestMediaTimestamp
    /\ \A i \in 1..Len(outModel) :
            outModel[i].type = "conversation.item.truncate" =>
                outModel[i].audio_end_ms >= 0

\* C37 witness: a barge-in on a stream that was started sent a truncate
\* instruction for 450 ms of audio (response began at 1000, caller heard at
\* 1450).
C37_Witness ==
    /\ lastEvent = "speech_started"
    /\ streamSid # NULL
    /\ latestMediaTimestamp = 1450
    /\ \E i \in 1..Len(outModel) :
            /\ outModel[i].type = "conversation.item.truncate"
            /\ outModel[i].audio_end_ms = 450

(***************************************************************************)
(* Properties of the playback marks (checked under PlaybackSpec)           *)
(***************************************************************************)
\* C38 as claimed: a mark event from the transport removes exactly one token
\* from the queue when there is one and nothing when there is none, and as
\* long as the transport holds a mark that was sent after the last barge-in
\* reset the queue is not empty.
C38_QueueTracksPlayback ==
    [][/\ TwilioMark =>
              Len(markQueue') = IF Len(markQueue) > 0 THEN Len(markQueue) - 1 ELSE 0
       /\ marksInFlight'.current > 0 => Len(markQueue') > 0
      ]_vars

(***************************************************************************)
(* Further properties of the tool calls (checked under ToolSpec)           *)
(***************************************************************************)
\* C39: in a requires_action event, a tool call that is not a function call
\* named book_appointment starts no booking request (its record stays as it
\* was, with none started) and no submit-tool-outputs frame names it, while
\* every book_appointment call of the same event is taken up: pending on its
\* booking request, or done with its error output when its arguments throw.
C39_OnlyBookAppointmentDispatched ==
    [][\A respId \in ResponseIds, S \in SUBSET ToolCallIds :
          \A shape \in [S -> ToolCallShapes] :
              WsRequiresAction(respId, S, shape) =>
                  \A id \in S :
                      IF shape[id].type = "function" /\ shape[id].name = "book_appointment"
                      THEN /\ toolCalls'[id].responseId = respId
                           /\ toolCalls'[id].status =
                                  IF shape[id].argsOk THEN "pending" ELSE "done"
                      ELSE /\ toolCalls'[id] = toolCalls[id]
                           /\ toolCalls'[id].status = "none"
                           /\ \A i \in 1..Len(outModel') :
                                  outModel'[i].tool_call_id # id
      ]_vars

\* C39 witness: a requires_action event carried two tool calls; call_2 was
\* not a book_appointment function call and was passed over, call_1 was one
\* and its booking request is under way.
C39_Witness ==
    /\ lastEvent = "requires_action"
    /\ ignoredToolCalls = {"call_2"}
    /\ toolCalls["call_2"] = NoToolCall
    /\ toolCalls["call_1"].status = "pending"
    /\ toolCalls["call_1"].openAtCall
    /\ outModel = <<>>

(***************************************************************************)
(* Bookings of turns sharing a call (checked under RaceSpec)               *)
(***************************************************************************)
\* C40 as claimed: a booking never succeeds for a call whose session was
\* cleared by a successful booking and not merged into since, and the first
\* merge into a session cleared by a booking stores what that turn extracted
\* and none of the slots from before the clear.
C40_NoDuplicateBooking ==
    [][\A r \in DOMAIN req :
          /\ (req[r].pc = "book" /\ req'[r].pc = "done" /\ req'[r].cleared) =>
                 req[r].callSid \notin justBooked
          /\ (/\ req[r].pc = "nlu" /\ req'[r].pc # "nlu"
              /\ req[r].callSid \in justBooked
              /\ req[r].callSid \in DOMAIN calls') =>
                 \A f \in SlotNames :
                     calls'[req[r].callSid].state[f] = req'[r].extracted[f]
      ]_vars


=============================================================================
